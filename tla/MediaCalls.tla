----------------------------- MODULE MediaCalls -----------------------------
(* What the media services share in a model: one budget of client calls and  *)
(* one server, whose end takes every task in memory with it.                 *)
EXTENDS Integers

CONSTANTS
  MaxCalls,  \* bound: the calls of a behaviour, over all services
  MaxStops   \* bound: how often the server stops or dies

ASSUME CallsAssumption == MaxCalls \in Nat /\ MaxStops \in Nat

VARIABLES
  calls,     \* the calls so far; each call has its number
  stops      \* how often the server has ended

Calls == 1 .. MaxCalls
None == 0

Called == calls < MaxCalls /\ calls' = calls + 1 /\ UNCHANGED stops
SameCalls == UNCHANGED <<calls, stops>>
=============================================================================
