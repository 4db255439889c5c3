-------------------------------- MODULE Its --------------------------------
(***************************************************************************)
(* The properties "custom" and "customRdOnly" of the object "it" and of    *)
(* the global object (js.cpp).  Both are one value, which the object's     *)
(* private points to and which is a root of the collector; its_setter      *)
(* makes it, its_finalize frees it.  The shell's threads share the         *)
(* objects.                                                                *)
(*                                                                         *)
(* A cell is a jsval that was allocated.  The steps of its_setter are      *)
(* actions; the engine keeps them from no other thread.                    *)
(***************************************************************************)
EXTENDS Integers, FiniteSets

CONSTANTS
    ItsObjects,     \* "it" and the global object
    ItsThreads,
    ItsValues,
    Cells           \* what can be allocated

NoCell == "NULL"
Unread == "undefined"
Garbage == "garbage"       \* what new leaves in a cell
ASSUME ItsAssumption == NoCell \notin Cells /\ Garbage \notin ItsValues

VARIABLES
    cell,       \* each object's private
    contents,   \* what is in the cells that are allocated
    roots,      \* the cells the collector knows
    setting,    \* per thread, where it is in its_setter, with what
    raced       \* history: the objects whose first value two threads set at once

itsVars == <<cell, contents, roots, setting, raced>>

NotSetting == [at |-> "none"]

ItsInit ==
    /\ cell = [o \in ItsObjects |-> NoCell]
    /\ contents = <<>> /\ roots = {}
    /\ setting = [t \in ItsThreads |-> NotSetting]
    /\ raced = {}

\* its_getter, for either property
its_getter(o) == IF cell[o] = NoCell THEN Unread ELSE contents[cell[o]]

\* its_setter, on an object that has a cell; custom is set, customRdOnly is
\* never.
SetCustom(t, o, v) ==
    /\ setting[t] = NotSetting /\ cell[o] # NoCell
    /\ contents' = [contents EXCEPT ![cell[o]] = v]
    /\ UNCHANGED <<cell, roots, setting, raced>>

\* On one that has none, a cell is allocated, made a root and made the private;
\* each may fail and undoes the ones before.
NewCell(t, o, v) ==
    /\ setting[t] = NotSetting /\ cell[o] = NoCell
    /\ \E c \in Cells \ DOMAIN contents :
          /\ setting' = [setting EXCEPT ![t] = [at |-> "root", o |-> o, c |-> c, v |-> v]]
          /\ contents' = [d \in DOMAIN contents \cup {c} |-> IF d = c THEN Garbage ELSE contents[d]]
    /\ UNCHANGED <<cell, roots, raced>>

Free(c) == contents' = [d \in DOMAIN contents \ {c} |-> contents[d]]

AddRoot(t) ==
    /\ setting[t].at = "root"
    /\ \/ /\ roots' = roots \cup {setting[t].c}
          /\ setting' = [setting EXCEPT ![t].at = "private"] /\ UNCHANGED contents
       \/ /\ Free(setting[t].c)
          /\ setting' = [setting EXCEPT ![t] = NotSetting] /\ UNCHANGED roots
    /\ UNCHANGED <<cell, raced>>

\* A mutant: the cell is freed but remains a root.
FailsRooted(t) ==
    /\ setting[t].at = "private"
    /\ Free(setting[t].c)
    /\ setting' = [setting EXCEPT ![t] = NotSetting]
    /\ UNCHANGED <<cell, roots, raced>>

SetPrivateFails(t) ==
    /\ setting[t].at = "private"
    /\ roots' = roots \ {setting[t].c} /\ Free(setting[t].c)
    /\ setting' = [setting EXCEPT ![t] = NotSetting]
    /\ UNCHANGED <<cell, raced>>

SetPrivate(t) ==
    LET o == setting[t].o
    IN /\ setting[t].at = "private"
       /\ cell' = [cell EXCEPT ![o] = setting[t].c]
       /\ raced' = IF cell[o] = NoCell THEN raced ELSE raced \cup {o}
       /\ setting' = [setting EXCEPT ![t].at = "store"]
       /\ UNCHANGED <<contents, roots>>

\* Only then it gets its value.
StoreValue(t) ==
    /\ setting[t].at = "store"
    /\ contents' = [contents EXCEPT ![setting[t].c] = setting[t].v]
    /\ setting' = [setting EXCEPT ![t] = NotSetting]
    /\ UNCHANGED <<cell, roots, raced>>

\* An object that no thread uses is collected; another may be made of the same
\* memory.
its_finalize(o) ==
    /\ \A t \in ItsThreads : setting[t] = NotSetting
    /\ cell[o] # NoCell
    /\ roots' = roots \ {cell[o]} /\ Free(cell[o])
    /\ cell' = [cell EXCEPT ![o] = NoCell]
    /\ UNCHANGED <<setting, raced>>

ItsNext ==
    \/ \E t \in ItsThreads :
          \/ \E o \in ItsObjects, v \in ItsValues : SetCustom(t, o, v) \/ NewCell(t, o, v)
          \/ AddRoot(t) \/ SetPrivateFails(t) \/ SetPrivate(t) \/ StoreValue(t)
    \/ \E o \in ItsObjects : its_finalize(o)

ItsSpec == ItsInit /\ [][ItsNext]_itsVars

-----------------------------------------------------------------------------
(* Properties.                                                             *)

Held == {cell[o] : o \in ItsObjects} \ {NoCell}
Underway(places) == {setting[t].c : t \in {t \in ItsThreads : setting[t].at \in places}}

\* What is read was set by a script, unless the reader comes between the last two
\* steps of the first setting.
HoldsValue(o) ==
    its_getter(o) # Garbage \/ \E t \in ItsThreads : setting[t].at = "store" /\ setting[t].o = o

\* A value that can be read is kept from the collector and nothing else is: the
\* roots are the cells of the objects and those about to become one, no root is
\* freed memory, and every allocated cell will be freed, however its_setter
\* fails.  What is read was written.  Only two threads that set the first value
\* of an object at once undo it: both make a cell, and the one that is replaced
\* stays a root for good.
CellsRooted ==
    /\ roots \subseteq DOMAIN contents /\ Held \subseteq roots
    /\ raced = {} => /\ roots = Held \cup Underway({"private"})
                     /\ DOMAIN contents = roots \cup Underway({"root"})
                     /\ \A o \in ItsObjects : HoldsValue(o)
=============================================================================
