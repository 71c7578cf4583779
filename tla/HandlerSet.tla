------------------------------ MODULE HandlerSet ------------------------------
(***************************************************************************)
(* What a list of handlers promises: an invocation calls every handler     *)
(* that is registered, each one once, in the order of their registration.  *)
(***************************************************************************)
EXTENDS Naturals, Sequences

CONSTANTS Funcs, \* the handler functions
          Cap    \* how many can be registered

VARIABLES
    order,    \* the registered handlers, first come first
    pending   \* the handlers the invocation under way has still to call

setVars == <<order, pending>>

SetInit == order = <<>> /\ pending = <<>>

Register(f) == /\ pending = <<>>
               /\ Len(order) < Cap
               /\ \A i \in DOMAIN order : order[i] # f
               /\ order' = Append(order, f)
               /\ UNCHANGED pending

\* The handler registered last is taken back, or all of them are.
Deregister == /\ pending = <<>>
              /\ order # <<>>
              /\ order' = SubSeq(order, 1, Len(order) - 1)
              /\ UNCHANGED pending

DeregisterAll == pending = <<>> /\ order' = <<>> /\ UNCHANGED pending

StartCalls == pending = <<>> /\ pending' = order /\ UNCHANGED order

Call == pending # <<>> /\ pending' = Tail(pending) /\ UNCHANGED order

SetNext == \/ \E f \in Funcs : Register(f)
           \/ Deregister \/ DeregisterAll
           \/ StartCalls \/ Call

SetSpec == SetInit /\ [][SetNext]_setVars
=============================================================================
