------------------------------ MODULE HandlerList ------------------------------
(***************************************************************************)
(* The handler lists of utils.c: a fixed array of function pointers, of    *)
(* which ml_conn_t holds one and np_conn_t two.  main() fills them before  *)
(* it starts the receiver threads, which invoke them.  tflog clears a list *)
(* once and removes no handler; the library lets others do so.             *)
(***************************************************************************)
EXTENDS Naturals, Sequences

CONSTANTS Funcs,     \* the handler functions
          NULL,      \* an empty slot
          Slots,     \* list->len
          AnyOrder   \* FALSE: the handler removed is the last of the list

ASSUME ConstantsAssumption == /\ NULL \notin Funcs
                              /\ Slots \in Nat
                              /\ AnyOrder \in BOOLEAN

Index == 1..Slots

VARIABLES
    handler,  \* the slots
    at,       \* utils_invoke_handlers: the slot it looks at, 0 outside
    ret       \* what the last operation has returned

vars == <<handler, at, ret>>

Init == /\ handler = [i \in Index |-> NULL]
        /\ at = 0
        /\ ret = "OK"

-----------------------------------------------------------------------------

\* Where a search of the list for f, or for an empty slot, stops.
StopsAt(f) == {i \in Index : handler[i] \in {f, NULL}}

IsFirst(i, S) == i \in S /\ \A j \in S : i <= j

\* Fault: the whole list is searched for an empty slot only.
Add_unchecked(f) ==
    /\ at = 0
    /\ LET empty == {i \in Index : handler[i] = NULL}
       IN  \/ \E i \in Index : /\ IsFirst(i, empty)
                               /\ handler' = [handler EXCEPT ![i] = f]
                               /\ ret' = "OK"
           \/ empty = {} /\ ret' = "FULL_LIST" /\ UNCHANGED handler
    /\ UNCHANGED at

\* utils_add_handler
Add(f) ==
    /\ at = 0
    /\ \/ \E i \in Index :
             /\ IsFirst(i, StopsAt(f))
             /\ handler' = [handler EXCEPT ![i] = f]
             /\ ret' = IF handler[i] = f THEN "ALREADY_IN_LIST" ELSE "OK"
       \/ StopsAt(f) = {} /\ ret' = "FULL_LIST" /\ UNCHANGED handler
    /\ UNCHANGED at

\* utils_rm_handler: the first slot that holds f.
Remove(f) ==
    /\ at = 0
    /\ LET held == {i \in Index : handler[i] = f}
       IN  \/ \E i \in Index : /\ IsFirst(i, held)
                               /\ handler' = [handler EXCEPT ![i] = NULL]
                               /\ ret' = "OK"
           \/ held = {} /\ ret' = "NOT_IN_LIST" /\ UNCHANGED handler
    /\ UNCHANGED at

\* utils_clear_handler_list
Clear ==
    /\ at = 0
    /\ handler' = [i \in Index |-> NULL]
    /\ ret' = "OK"
    /\ UNCHANGED at

\* utils_invoke_handlers, one slot after the other; NULLs are passed over.
StartInvoke ==
    /\ at = 0
    /\ at' = IF Slots = 0 THEN 0 ELSE 1
    /\ UNCHANGED <<handler, ret>>

\* Fault: the last slot is not looked at.
InvokeSlot_short ==
    /\ at # 0
    /\ at' = IF at >= Slots - 1 THEN 0 ELSE at + 1
    /\ UNCHANGED <<handler, ret>>

InvokeSlot ==
    /\ at # 0
    /\ at' = IF at = Slots THEN 0 ELSE at + 1
    /\ UNCHANGED <<handler, ret>>

\* Removing f leaves no gap: no handler stands behind it.
Removable(f) ==
    AnyOrder \/ \A i, j \in Index : handler[i] = f /\ i < j => handler[j] = NULL

Next == \/ \E f \in Funcs : Add(f)
        \/ \E f \in Funcs : Removable(f) /\ Remove(f)
        \/ Clear
        \/ StartInvoke
        \/ InvokeSlot

Spec == Init /\ [][Next]_vars

-----------------------------------------------------------------------------
(* Properties.                                                             *)

\* Every variable has its type.
TypeOK == /\ handler \in [Index -> Funcs \cup {NULL}]
          /\ at \in 0..Slots
          /\ ret \in {"OK", "ALREADY_IN_LIST", "FULL_LIST", "NOT_IN_LIST"}

\* "don't add a function to list twice" (utils.c).
NoDuplicates ==
    \A i, j \in Index : handler[i] = handler[j] /\ handler[i] # NULL => i = j

\* There is no empty slot before a used one: a search that stops at the
\* first empty slot has seen every handler.
NoGaps == \A i, j \in Index : i < j /\ handler[j] # NULL => handler[i] # NULL

\* What a list is without gaps.
ListInv == TypeOK /\ (~AnyOrder => NoDuplicates /\ NoGaps)

\* The handlers from slot lo on: a sequence, as long as there is no gap.
Used(lo) == LET taken == {k \in 1..(Slots - lo + 1) : handler[lo + k - 1] # NULL}
            IN  [k \in taken |-> handler[lo + k - 1]]

\* The handlers that are registered are each called once per message, in the
\* order of their registration.
Promised == INSTANCE HandlerSet
              WITH Cap <- Slots,
                   order <- Used(1),
                   pending <- IF at = 0 THEN <<>> ELSE Used(at)

RefinesHandlerSet == Promised!SetSpec
=============================================================================
