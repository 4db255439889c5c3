---------------------------- MODULE SplitObjects ----------------------------
(***************************************************************************)
(* The global object of js -z (js.cpp): an inner object, in which the      *)
(* names of a script are looked up, and an outer one, which scripts see as *)
(* "this".  The hooks of their class pass what is done with a property of  *)
(* the outer object on to the inner one.                                   *)
(*                                                                         *)
(* A value is modelled by the name its string spells, so a value can name  *)
(* a property.  Attributes, prototypes and the standard classes are left   *)
(* out.                                                                    *)
(***************************************************************************)
EXTENDS Integers, FiniteSets, TLC

CONSTANT Names      \* the names that occur, as properties and as values

TrueName == "true"
Undefined == "undefined"
IsInner == "isInner"
ASSUME NamesAssumption == {TrueName, Undefined, IsInner} \subseteq Names

Outer == "outer"
Inner == "inner"
NoObject == "NULL"
NoOp == [op |-> "none"]

VARIABLES
    splitAt,    \* split_setup() is to create "outer" or "inner" or has created
                \* both; then "run" between statements and "script", or "failed";
                \* "ended"
    living,     \* the objects that have not been collected
    private,    \* the ComplexObject of each of them that has one
    allocated,  \* the number of ComplexObjects
    innerProps, \* what reading the properties of the inner object gives
    outerOwn,   \* the names of those the outer object has itself
    splitOp     \* history: the operation of the last step

splitVars == <<splitAt, living, private, allocated, innerProps, outerOwn, splitOp>>
objectVars == <<splitAt, living, private, allocated>>

SplitInit ==
    /\ splitAt = Outer /\ living = {} /\ private = <<>> /\ allocated = 0
    /\ innerProps = <<>> /\ outerOwn = {} /\ splitOp = NoOp

\* A property is defined or set, or deleted.
Put(props, n, v) == [m \in DOMAIN props \cup {n} |-> IF m = n THEN v ELSE props[m]]
Delete(props, n) == [m \in DOMAIN props \ {n} |-> props[m]]

-----------------------------------------------------------------------------
(* split_setup().                                                          *)

\* The ComplexObject or the object cannot be allocated, or one of its fields
\* cannot be set: the object is left without the ComplexObject, which is freed.
CreateFails(o) ==
    /\ splitAt = o
    /\ splitAt' = "failed"
    /\ living' \in {living, living \cup {o}}
    /\ UNCHANGED <<private, allocated, innerProps, outerOwn, splitOp>>

split_create_outer ==
    /\ splitAt = Outer /\ splitAt' = Inner
    /\ living' = {Outer} /\ allocated' = allocated + 1
    /\ private' = Put(private, Outer, [isInner |-> FALSE, frozen |-> TRUE, inner |-> NoObject])
    /\ UNCHANGED <<innerProps, outerOwn, splitOp>>

split_create_inner ==
    /\ splitAt = Inner /\ splitAt' = "created"
    /\ living' = living \cup {Inner} /\ allocated' = allocated + 1
    /\ private' = Put([private EXCEPT ![Outer].inner = Inner, ![Outer].frozen = FALSE],
                      Inner, [isInner |-> TRUE, frozen |-> FALSE, inner |-> NoObject])
    /\ UNCHANGED <<innerProps, outerOwn, splitOp>>

\* The natives and the arguments are defined on the inner object, or one of
\* them cannot be; the scope of the outer one is cleared.
split_setup ==
    /\ splitAt = "created" /\ splitAt' \in {"run", "failed"}
    /\ outerOwn' = {}
    /\ UNCHANGED <<living, private, allocated, innerProps, splitOp>>

-----------------------------------------------------------------------------
(* The hooks.                                                              *)

\* What the outer object stands for when a script is run with it
split_innerObject(o) == IF private[o].frozen \/ private[o].isInner THEN o ELSE private[o].inner

\* What the inner object gives for a property: for isInner its flag, whatever
\* was assigned
split_getProperty(n, v) == IF n = IsInner THEN TrueName ELSE v

Define(props, n, v) == Put(props, n, split_getProperty(n, v))

\* It is the value that is converted to a name.
split_addProperty(props, v) == Define(props, v, v)

split_setProperty(props, n, v) == Define(props, n, v)

\* The value is the result that is prepared, true.
split_delProperty(props) == Delete(props, TrueName)

\* When a name is looked up through the outer object: isInner is defined on it,
\* without a value; other names are looked up on the inner one.
split_resolve(n) ==
    IF n = IsInner /\ n \notin outerOwn THEN split_addProperty(innerProps, Undefined)
                                     ELSE innerProps

-----------------------------------------------------------------------------
(* What a script does.                                                     *)

\* A property the outer object does not have itself, and has not resolved, is
\* added to it before it is set.
SetThis(n, v) ==
    /\ splitAt = "script"
    /\ innerProps' = split_setProperty(IF n \in outerOwn \cup {IsInner} THEN split_resolve(n)
                                       ELSE split_addProperty(innerProps, v), n, v)
    /\ outerOwn' = outerOwn \cup {n}
    /\ splitOp' = [op |-> "set", name |-> n, value |-> v]
    /\ UNCHANGED objectVars

DeleteThis(n) ==
    /\ splitAt = "script"
    /\ innerProps' = split_delProperty(split_resolve(n))
    /\ outerOwn' = outerOwn \ {n}
    /\ splitOp' = [op |-> "delete", name |-> n]
    /\ UNCHANGED objectVars

\* Reading changes something only for isInner.
GetThisIsInner ==
    /\ splitAt = "script"
    /\ innerProps' = split_resolve(IsInner)
    /\ outerOwn' = outerOwn \cup {IsInner}
    /\ splitOp' = [op |-> "get", name |-> IsInner]
    /\ UNCHANGED objectVars

\* Plain names are those of the inner object, for which the other hooks do
\* nothing.
SetName(n, v) ==
    /\ splitAt = "script"
    /\ innerProps' = Define(innerProps, n, v)
    /\ splitOp' = NoOp
    /\ UNCHANGED <<objectVars, outerOwn>>

DeleteName(n) ==
    /\ splitAt = "script"
    /\ innerProps' = Delete(innerProps, n)
    /\ splitOp' = NoOp
    /\ UNCHANGED <<objectVars, outerOwn>>

\* The inner object too defines isInner on itself when it is looked up.
GetIsInner ==
    /\ splitAt = "script"
    /\ innerProps' = Define(innerProps, IsInner, Undefined)
    /\ splitOp' = NoOp
    /\ UNCHANGED <<objectVars, outerOwn>>

-----------------------------------------------------------------------------
(* The collector.                                                          *)

\* A mutant: nothing is marked.
MarkNothing(o) == {}

\* The objects that are kept along with a kept one
split_mark(o) ==
    IF o \in DOMAIN private /\ ~private[o].isInner THEN {private[o].inner} ELSE {}

\* The outer object is the global one of the context; a running script holds
\* what it stands for, and the newest object is held while it is set up.
Roots ==
    CASE splitAt \in {Inner, "run"} -> {Outer}
      [] splitAt = "created" -> {Outer, Inner}
      [] splitAt = "script" -> {Outer, split_innerObject(Outer)}
      [] OTHER -> {}

\* What is not kept is finalized: split_finalize frees its ComplexObject.
Collect ==
    LET kept == (Roots \cup UNION {split_mark(o) : o \in Roots}) \cap living
    IN /\ splitAt \notin {Outer, "failed"}
       /\ living' = kept
       /\ private' = [o \in kept \cap DOMAIN private |-> private[o]]
       /\ allocated' = allocated - Cardinality(DOMAIN private \ kept)
       /\ UNCHANGED <<splitAt, innerProps, outerOwn, splitOp>>

ScriptBegins == splitAt = "run" /\ splitAt' = "script"
ScriptStops == splitAt = "script" /\ splitAt' = "run"
SplitEnds == splitAt \in {"run", "failed"} /\ splitAt' = "ended"

SplitNext ==
    \/ \E o \in {Outer, Inner} : CreateFails(o)
    \/ split_create_outer \/ split_create_inner \/ split_setup
    \/ \E n, v \in Names : SetThis(n, v) \/ SetName(n, v)
    \/ \E n \in Names : DeleteThis(n) \/ DeleteName(n)
    \/ GetThisIsInner \/ GetIsInner \/ Collect
    \/ /\ ScriptBegins \/ ScriptStops \/ SplitEnds
       /\ UNCHANGED <<living, private, allocated, innerProps, outerOwn, splitOp>>

SplitSpec == SplitInit /\ [][SplitNext]_splitVars

-----------------------------------------------------------------------------
(* Properties.                                                             *)

\* Each ComplexObject belongs to one living object, through every failure of
\* the setup and every collection: none is leaked and none is freed twice.  As
\* long as scripts can run, both objects live, though only the outer one is a
\* root between statements.
ObjectsKept ==
    /\ DOMAIN private \subseteq living /\ allocated = Cardinality(DOMAIN private)
    /\ splitAt \in {"run", "script"} => living = {Outer, Inner}

\* "Make sure to define this property on the inner object" (js.cpp:2603, and
\* for deletions js.cpp:2674): an operation on a property of the outer object is
\* one on that property of the inner object, and on no other.
OnlyTheNamed ==
    [][splitOp' # splitOp /\ splitOp'.op \in {"set", "delete", "get"} =>
          \A n \in Names \ {splitOp'.name} :
              /\ n \in DOMAIN innerProps' <=> n \in DOMAIN innerProps
              /\ n \in DOMAIN innerProps => innerProps'[n] = innerProps[n]]_splitVars
=============================================================================
