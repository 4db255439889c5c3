-------------------------------- MODULE Dso --------------------------------
(***************************************************************************)
(* DSO.load() and DSO.unload() (jsdso.cpp): a table of the libraries that  *)
(* scripts have loaded.  A library's js_DSO_load and js_DSO_unload run in  *)
(* the middle of the two and may load and unload libraries themselves, and *)
(* threads share the table without a lock.                                 *)
(*                                                                         *)
(* The dynamic linker counts how often a library is open; its handle is    *)
(* the library.  Ids out of range and arguments that are no ids only       *)
(* report an error and are left out.                                       *)
(***************************************************************************)
EXTENDS Integers, Sequences, SequencesExt

CONSTANTS
    Slots,      \* 10000: the size of the table
    Libs,
    DsoThreads,
    MaxCalls    \* a bound of the model: natives of one thread within each other

NoHandle == "NULL"
Ids == 0 .. Slots - 1
ASSUME DsoAssumption ==
    /\ Slots \in Nat /\ MaxCalls \in Nat
    /\ IsFiniteSet(DsoThreads)
    /\ NoHandle \notin Libs

VARIABLES
    dso_handle,
    opened,     \* the linker's count of each library
    dsoCalls,   \* the natives each thread is in, the innermost last
    clash       \* history: two calls met in one slot

dsoVars == <<dso_handle, opened, dsoCalls, clash>>

DsoInit ==
    /\ dso_handle = [id \in Ids |-> NoHandle]
    /\ opened = [lib \in Libs |-> 0]
    /\ dsoCalls = [t \in DsoThreads |-> <<>>]
    /\ clash = FALSE

\* A script, or the function of a library, may call a native.
MayCall(t) ==
    /\ Len(dsoCalls[t]) < MaxCalls
    /\ dsoCalls[t] # <<>> => Last(dsoCalls[t]).at = "inside"

In(t, fn, at) ==
    /\ dsoCalls[t] # <<>>
    /\ Last(dsoCalls[t]).fn = fn /\ Last(dsoCalls[t]).at = at

Called(t) == Last(dsoCalls[t])
Enters(t, call) == dsoCalls' = [dsoCalls EXCEPT ![t] = Append(@, call)]
Continues(t, at) ==
    dsoCalls' = [dsoCalls EXCEPT ![t] = Append(Front(@), [Last(@) EXCEPT !.at = at])]
LeavesDso(t) == dsoCalls' = [dsoCalls EXCEPT ![t] = Front(@)]

\* The first free slot is chosen, and taken much later.  With a full table the
\* loop ends at the slot behind the last, whatever is found there.
LoadStarts(t, lib) ==
    /\ MayCall(t)
    /\ \E id \in Ids :
          /\ dso_handle[id] = NoHandle
          /\ \A k \in 0 .. id - 1 : dso_handle[k] # NoHandle
          /\ Enters(t, [fn |-> "load", id |-> id, lib |-> lib, at |-> "open"])
    /\ UNCHANGED <<dso_handle, opened, clash>>

\* dlopen fails for every pattern, or the library has no js_DSO_load and is
\* closed again, or js_DSO_load is called.
Dlopen(t) ==
    /\ In(t, "load", "open")
    /\ \/ LeavesDso(t) /\ UNCHANGED opened
       \/ Continues(t, "inside") /\ opened' = [opened EXCEPT ![Called(t).lib] = @ + 1]
    /\ UNCHANGED <<dso_handle, clash>>

\* A mutant: the library whose js_DSO_load failed stays open.
LoadFailsOpen(t) ==
    /\ In(t, "load", "inside")
    /\ LeavesDso(t)
    /\ UNCHANGED <<dso_handle, opened, clash>>

LoadFails(t) ==
    /\ In(t, "load", "inside")
    /\ LeavesDso(t)
    /\ opened' = [opened EXCEPT ![Called(t).lib] = @ - 1]
    /\ UNCHANGED <<dso_handle, clash>>

LoadReturns(t) ==
    LET id == Called(t).id
    IN /\ In(t, "load", "inside")
       /\ dso_handle' = [dso_handle EXCEPT ![id] = Called(t).lib]
       /\ clash' = (clash \/ dso_handle[id] # NoHandle)
       /\ LeavesDso(t)
       /\ UNCHANGED opened

\* js_DSO_unload is called if there is one.
UnloadStarts(t, id) ==
    /\ MayCall(t)
    /\ dso_handle[id] # NoHandle
    /\ \E at \in {"inside", "close"} :
          Enters(t, [fn |-> "unload", id |-> id, lib |-> dso_handle[id], at |-> at])
    /\ clash' = (clash \/ \E u \in DsoThreads : \E k \in DOMAIN dsoCalls[u] :
                              dsoCalls[u][k].fn = "unload" /\ dsoCalls[u][k].id = id)
    /\ UNCHANGED <<dso_handle, opened>>

UnloadCalled(t) ==
    /\ In(t, "unload", "inside")
    /\ LeavesDso(t) \/ Continues(t, "close")
    /\ UNCHANGED <<dso_handle, opened, clash>>

Dlclose(t) ==
    /\ In(t, "unload", "close")
    /\ opened' = [opened EXCEPT ![Called(t).lib] = @ - 1]
    /\ Continues(t, "clear")
    /\ UNCHANGED <<dso_handle, clash>>

UnloadReturns(t) ==
    /\ In(t, "unload", "clear")
    /\ dso_handle' = [dso_handle EXCEPT ![Called(t).id] = NoHandle]
    /\ LeavesDso(t)
    /\ UNCHANGED <<opened, clash>>

DsoNext ==
    \E t \in DsoThreads :
        \/ \E lib \in Libs : LoadStarts(t, lib)
        \/ Dlopen(t) \/ LoadFails(t) \/ LoadReturns(t)
        \/ \E id \in Ids : UnloadStarts(t, id)
        \/ UnloadCalled(t) \/ Dlclose(t) \/ UnloadReturns(t)

DsoSpec == DsoInit /\ [][DsoNext]_dsoVars

-----------------------------------------------------------------------------
(* Properties.                                                             *)

CallsIn(fn, at, lib) ==
    {p \in DsoThreads \X (1 .. MaxCalls) :
        /\ p[2] \in DOMAIN dsoCalls[p[1]]
        /\ LET call == dsoCalls[p[1]][p[2]]
           IN call.fn = fn /\ call.at = at /\ call.lib = lib}

\* The table and the linker agree, however the natives fail and within
\* whatever library they are called: each library is open as often as it is in
\* a slot or being loaded.  Only two things undo it: a load that ends in a slot
\* that was taken while its js_DSO_load ran, and an unload of a slot that is
\* being unloaded.
HandlesKept ==
    clash \/ \A lib \in Libs :
        opened[lib] = Cardinality({id \in Ids : dso_handle[id] = lib})
                      + Cardinality(CallsIn("load", "inside", lib))
                      - Cardinality(CallsIn("unload", "clear", lib))
=============================================================================
