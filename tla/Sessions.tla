------------------------------- MODULE Sessions -------------------------------
(***************************************************************************)
(* AuthService, once somebody has an account: login, the rotation of       *)
(* refresh tokens, logout, and the reset of a forgotten password.          *)
(*                                                                         *)
(* A refresh reads its token, revokes it by id and then creates the next;  *)
(* a reset changes the password and revokes what there is.  Access tokens  *)
(* are not stored and end by themselves.                                   *)
(***************************************************************************)
EXTENDS Tables

CONSTANTS
    Accounts,    \* the users whose sessions are followed
    MaxTokens,   \* bound on the refresh tokens issued
    MaxCodes,    \* bound on the reset codes mailed
    MaxResets    \* bound on the resets of one password

ASSUME SessionsAssumption ==
    Accounts \subseteq Users /\ MaxTokens \in Nat /\ MaxCodes \in Nat

VARIABLES
    password,    \* how often the password was reset
    token,       \* refresh_tokens, in the order of creation
    code,        \* password_reset_tokens, in the order of creation
    permits      \* the users who hold a reset token that has not expired

sessionsVars == <<password, token, code, permits>>

\* A line of tokens begins with a login and goes on with each refresh.  What it knows is
\* the password of that login; "crossed" says that the password was reset while a
\* request of the line was under way, and "forked" that one of its refreshes read a
\* token that somebody else revoked before it did.  None of this is stored.
Line(v, line, knows, crossed, forked) ==
    [user |-> v, line |-> line, knows |-> knows, crossed |-> crossed, forked |-> forked]
Token(of, state) == [of |-> of, state |-> state]
Live(i) == token[i].state = "live"
Code(v, state) == [user |-> v, state |-> state]

NewLine == 0
Lines == 1 .. MaxTokens

\* A login that has verified the password, a refresh that has read or revoked token i.
Issue(of) == [at |-> "issue", of |-> of]
Refresh(i) == [at |-> "revoke", of |-> token[i].of, token |-> i]

LinesOf(lines) ==
    [user : Accounts, line : lines, knows : Nat, crossed : BOOLEAN, forked : BOOLEAN]
SessionCalls ==
    [at : {"issue"}, of : LinesOf(Lines \union {NewLine})]
    \union [at : {"revoke"}, of : LinesOf(Lines), token : Lines]
    \union [at : {"useCode"}, code : 1 .. MaxCodes]
    \union [at : {"reset"}, user : Accounts]

SessionsTypeOK ==
    /\ password \in [Accounts -> Nat]
    /\ token \in Seq([of : LinesOf(Lines), state : {"live", "revoked", "expired"}])
    /\ code \in Seq([user : Accounts, state : {"live", "used", "expired"}])
    /\ permits \subseteq Accounts

SessionsInit ==
    /\ password = [v \in Accounts |-> 0]
    /\ token = <<>> /\ code = <<>>
    /\ permits = {}
-----------------------------------------------------------------------------
(* login, refresh and logout.                                              *)

\* With the password of the row that login has read.
LoginReads(c, v) ==
    /\ call[c] = Idle
    /\ v \notin archived
    /\ Goes(c, Issue(Line(v, NewLine, password[v], FALSE, FALSE)))
    /\ UNCHANGED <<tables, sessionsVars>>

\* generateTokens.  The cookie and the audit entry follow.
IssueToken(c) ==
    /\ call[c].at = "issue"
    /\ Len(token) < MaxTokens
    /\ LET of == call[c].of
       IN  token' = Append(token,
               Token([of EXCEPT !.line = IF @ = NewLine THEN Len(token) + 1 ELSE @], "live"))
    /\ Goes(c, Idle)
    /\ UNCHANGED <<tables, password, code, permits>>

\* Mutant of RefreshReads: a token that was revoked will do.
RefreshReadsRevoked(c, i) ==
    /\ call[c] = Idle
    /\ i \in DOMAIN token /\ token[i].state # "expired"
    /\ Goes(c, Refresh(i))
    /\ UNCHANGED <<tables, sessionsVars>>

\* Neither the user nor his role is looked up again.
RefreshReads(c, i) ==
    /\ call[c] = Idle
    /\ i \in DOMAIN token /\ Live(i)
    /\ Goes(c, Refresh(i))
    /\ UNCHANGED <<tables, sessionsVars>>

RefreshRevokes(c) ==
    /\ call[c].at = "revoke"
    /\ LET i == call[c].token
       IN  /\ token' = [token EXCEPT ![i].state = "revoked"]
           /\ Goes(c, Issue([call[c].of EXCEPT !.forked = @ \/ token[i].state = "revoked"]))
    /\ UNCHANGED <<tables, password, code, permits>>

Revoked(v) ==
    [i \in DOMAIN token |->
        IF token[i].of.user = v THEN Token(token[i].of, "revoked") ELSE token[i]]

Logout(v) ==
    /\ token' = Revoked(v)
    /\ UNCHANGED <<tables, call, password, code, permits>>
-----------------------------------------------------------------------------
(* forgotPassword, verifyOtp and resetPassword.                            *)

\* Archived users get a code, too.
ForgotPassword(v) ==
    /\ Len(code) < MaxCodes
    /\ code' = Append(code, Code(v, "live"))
    /\ UNCHANGED <<tables, call, password, token, permits>>

\* The newest code that is not used; an older one is no longer good.
Newest(v) == {i \in DOMAIN code :
    /\ code[i].user = v /\ code[i].state # "used"
    /\ \A j \in DOMAIN code : code[j].user = v /\ code[j].state # "used" => j <= i}

VerifyOtp(c, v) ==
    /\ call[c] = Idle
    /\ \E i \in Newest(v) :
          /\ code[i].state = "live"
          /\ Goes(c, [at |-> "useCode", code |-> i])
    /\ UNCHANGED <<tables, sessionsVars>>

VerifyOtpWrites(c) ==
    /\ call[c].at = "useCode"
    /\ code' = [code EXCEPT ![call[c].code].state = "used"]
    /\ permits' = permits \union {code[call[c].code].user}
    /\ Goes(c, Idle)
    /\ UNCHANGED <<tables, password, token>>

\* The reset token may be used until it expires.
ResetReads(c, v) ==
    /\ call[c] = Idle
    /\ v \in permits /\ v \notin archived
    /\ password[v] + Cardinality({d \in Calls : call[d] = [at |-> "reset", user |-> v]}) < MaxResets
    /\ Goes(c, [at |-> "reset", user |-> v])
    /\ UNCHANGED <<tables, sessionsVars>>

\* One transaction.  Whoever is between two steps of a login or a refresh does not
\* notice.
ResetWrites(c) ==
    /\ call[c].at = "reset"
    /\ LET v == call[c].user
       IN  /\ password' = [password EXCEPT ![v] = @ + 1]
           /\ token' = Revoked(v)
           /\ call' = [d \in Calls |->
                  IF d = c THEN Idle
                  ELSE IF call[d].at \in {"revoke", "issue"} /\ call[d].of.user = v
                  THEN [call[d] EXCEPT !.of.crossed = TRUE] ELSE call[d]]
    /\ UNCHANGED <<tables, code, permits>>
-----------------------------------------------------------------------------
SessionCallFails(c) ==
    /\ call[c] \in SessionCalls
    /\ Goes(c, Idle)
    /\ UNCHANGED <<tables, sessionsVars>>

Expires ==
    /\ \/ \E i \in {i \in DOMAIN token : Live(i)} :
             token' = [token EXCEPT ![i].state = "expired"] /\ UNCHANGED <<code, permits>>
       \/ \E i \in {i \in DOMAIN code : code[i].state = "live"} :
             code' = [code EXCEPT ![i].state = "expired"] /\ UNCHANGED <<token, permits>>
       \/ \E v \in permits : permits' = permits \ {v} /\ UNCHANGED <<token, code>>
    /\ UNCHANGED <<tables, call, password>>

SessionsNext ==
    \/ \E c \in Calls, v \in Accounts : LoginReads(c, v) \/ VerifyOtp(c, v) \/ ResetReads(c, v)
    \/ \E c \in Calls, i \in Lines : RefreshReads(c, i)
    \/ \E c \in Calls :
          IssueToken(c) \/ RefreshRevokes(c) \/ VerifyOtpWrites(c) \/ ResetWrites(c)
          \/ SessionCallFails(c)
    \/ \E v \in Accounts : Logout(v) \/ ForgotPassword(v) \/ (Archive(v) /\ UNCHANGED sessionsVars)
    \/ Expires
-----------------------------------------------------------------------------
(* Properties.                                                             *)

\* A session goes back to a login with the password of today, unless one of its
\* requests crossed the reset of the password (refresh, resetPassword).
SessionsKnowPassword ==
    \A i \in DOMAIN token : Live(i) =>
        token[i].of.knows = password[token[i].of.user] \/ token[i].of.crossed

\* A login is worth one session at a time, unless a refresh crossed another one, or a
\* logout, on the same token: one live token, or one request about to create it.
OneSessionPerLogin ==
    \A line \in Lines :
        Cardinality({i \in DOMAIN token : Live(i) /\ token[i].of.line = line /\ ~token[i].of.forked})
        + Cardinality({c \in Calls : call[c].at = "issue" /\ call[c].of.line = line
                                    /\ ~call[c].of.forked}) <= 1

\* Both: what the live tokens of a user are worth.
SessionsAccounted == SessionsKnowPassword /\ OneSessionPerLogin
=============================================================================
