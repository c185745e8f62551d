------------------------------- MODULE MCDesk -------------------------------
(* An instance of Desk for TLC: one console and one project.               *)
EXTENDS Desk

CONSTANTS w, left, right, s1, tree

MCKindOf == [r \in Records |-> "window"]
MCMaxOf  == [k \in Kinds |-> 1]

MCFirst  == [recs |-> [r \in Records |-> [place |-> left, session |-> s1]], pick |-> tree]

MCActsOf ==
    <<{[op |-> "set", id |-> w, place |-> right, session |-> Keep]},
      {[op |-> "remove", id |-> w],
       [op |-> "create", id |-> w, place |-> left, session |-> s1]}>>
=============================================================================
