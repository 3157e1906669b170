---------------------------- MODULE RpcRegistry ----------------------------
(***************************************************************************)
(* What the function memory promises (s_mapper.h): under every name a      *)
(* stack of registered functions, whose top is the one that is found and   *)
(* removed, and the number of functions it holds.                          *)
(***************************************************************************)
EXTENDS Integers, Sequences

CONSTANTS
  Names,    \* the names a function can be registered or sought under
  Mappers,  \* the functions that can be registered
  NULL      \* the null pointer

VARIABLES
  stacks,   \* name -> the functions registered under it, newest first
  count,    \* how many there are altogether
  ret,      \* the code the last operation returned
  found     \* what Get found last

Init ==
  /\ stacks = [n \in Names |-> << >>]
  /\ count = 0
  /\ ret = 0
  /\ found = NULL

Add(m) ==
  /\ stacks' = [stacks EXCEPT ![m.name] = <<m>> \o @]
  /\ count' = count + 1
  /\ ret' = 0
  /\ UNCHANGED found

\* A function is made, or it cannot be made, or no memory is left to add it:
\* nothing is registered.
Make ==
  /\ ret' \in {0, -1, -2, -3}
  /\ UNCHANGED <<stacks, count, found>>

Exist(n) ==
  /\ ret' = IF stacks[n] = << >> THEN 0 ELSE 1
  /\ UNCHANGED <<stacks, count, found>>

Get(n) ==
  /\ found' = IF stacks[n] = << >> THEN NULL ELSE Head(stacks[n])
  /\ UNCHANGED <<stacks, count, ret>>

\* The function registered before under the same name comes back.
Remove(n) ==
  /\ IF stacks[n] = << >>
     THEN ret' = -1 /\ UNCHANGED <<stacks, count>>
     ELSE /\ stacks' = [stacks EXCEPT ![n] = Tail(@)]
          /\ count' = count - 1
          /\ ret' = 0
  /\ UNCHANGED found

Clear ==
  /\ stacks' = [n \in Names |-> << >>]
  /\ count' = 0
  /\ UNCHANGED <<ret, found>>

Next ==
  \/ \E m \in Mappers : Add(m)
  \/ Make
  \/ \E n \in Names : Exist(n) \/ Get(n) \/ Remove(n)
  \/ Clear

Spec == Init /\ [][Next]_<<stacks, count, ret, found>>
=============================================================================
