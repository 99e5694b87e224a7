-------------------------- MODULE MCLocalNetwork --------------------------
(***************************************************************************)
(* LocalNetwork on a small instance: everybody has an address at the start *)
(* and none is left over, so that addresses can only change hands.         *)
(***************************************************************************)
EXTENDS LocalNetwork

CONSTANTS s1, s2, s3, a1, a2, a3, a4

MCLeases == [h \in Hosts |-> CASE h = Gateway -> a1 [] h = s1 -> a2
                               [] h = s2 -> a3 [] h = s3 -> a4]

DeleteOf(s) == [action |-> "delete", sensor |-> s]
Other(action) == [action |-> action]

\* Two deletions in a row, and one behind each of the other commands.
MCAnswers == {<<DeleteOf(s1), DeleteOf(s2)>>}
             \union {<<Other(a), DeleteOf(s1)>> :
                       a \in {"restart", "provision", "unknown"}}
=============================================================================
