------------------------------ MODULE Admission ------------------------------
(***************************************************************************)
(* What an organisation and the people it invites may rely on, whatever    *)
(* the requests and jobs in flight: the abstract specification that        *)
(* Onboarding implements.                                                  *)
(*                                                                         *)
(*  - an offer (an invitation) is made to one address, for one role;       *)
(*  - a link belongs to one offer, and no link is ever given out twice;    *)
(*  - who joins does so through a link of an offer to the own address, in  *)
(*    the role that was offered, and only once.                            *)
(***************************************************************************)
EXTENDS Integers, Sequences

CONSTANTS
    Emails,   \* the addresses
    Roles,    \* the roles
    Links     \* the links

VARIABLES
    offers,   \* the offers, in the order in which they were made
    links,    \* pairs of an offer and a link to it
    members   \* who has joined, as what, and through which offer

vars == <<offers, links, members>>

Offer(e, r) ==
    /\ offers' = Append(offers, [email |-> e, role |-> r])
    /\ UNCHANGED <<links, members>>

Link(o, link) ==
    /\ \A l \in links : l[2] # link
    /\ links' = links \union {<<o, link>>}
    /\ UNCHANGED <<offers, members>>

Join(o) ==
    /\ \E l \in links : l[1] = o
    /\ \A m \in members : m.email # offers[o].email
    /\ members' = members \union
           {[email |-> offers[o].email, role |-> offers[o].role, offer |-> o]}
    /\ UNCHANGED <<offers, links>>

Init ==
    /\ offers = <<>>
    /\ links = {}
    /\ members = {}

Next ==
    \/ \E e \in Emails, r \in Roles : Offer(e, r)
    \/ \E o \in DOMAIN offers, link \in Links : Link(o, link)
    \/ \E o \in DOMAIN offers : Join(o)

Spec == Init /\ [][Next]_vars
=============================================================================
