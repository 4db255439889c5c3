------------------------------ MODULE Environ ------------------------------
(***************************************************************************)
(* The object "environment" (js.cpp) and SysUtil.getenv (js_sysutil.cpp):  *)
(* a property is a copy of a variable of the process, made when it is      *)
(* first asked for, set, or listed.  The object's private is the array of  *)
(* strings main() was given; the C library leaves that array behind when   *)
(* it adds a variable, and the two share the strings they have in common.  *)
(*                                                                         *)
(* The shell's threads share the object.  All but the listing is one step; *)
(* in the middle of it a string has lost its '='.                          *)
(***************************************************************************)
EXTENDS Integers, Sequences, FiniteSetsExt

CONSTANTS
    EnvThreads,
    EnvNames, EnvValues,
    InitialEnv,     \* a sequence of [name, value], each name once
    MaxEnv          \* a bound of the model on the variables of the process
ASSUME EnvironAssumption ==
    /\ InitialEnv \in Seq([name : EnvNames, value : EnvValues])
    /\ \A j, k \in DOMAIN InitialEnv : InitialEnv[j].name = InitialEnv[k].name => j = k

Unset == "undefined"

VARIABLES
    envp,       \* the array the object knows
    environ,    \* the array of the C library, and whether it is another one
    moved,
    cut,        \* the strings without '=', by their place in envp
    shared,     \* the places at which environ has the string of envp
    props,      \* the object's own properties
    reflected,
    listing,    \* per thread, the place in envp it looks at, or 0
    astray      \* history: the names whose copy went wrong, see EnvAgrees

envVars == <<envp, environ, moved, cut, shared, props, reflected, listing, astray>>
processVars == <<envp, environ, moved, cut, shared>>

EnvironInit ==
    /\ envp = InitialEnv /\ environ = InitialEnv /\ moved = FALSE
    /\ cut = {} /\ shared = DOMAIN InitialEnv
    /\ props = <<>> /\ reflected = FALSE
    /\ listing = [t \in EnvThreads |-> 0]
    /\ astray = {}

Holding(obj, n, v) == [m \in DOMAIN obj \cup {n} |-> IF m = n THEN v ELSE obj[m]]

-----------------------------------------------------------------------------
(* The C library.                                                          *)

\* A string without '=' is not found under its name.
PlacesOf(n) == {k \in DOMAIN environ \ (cut \cap shared) : environ[k].name = n}
Hidden(n) == \E k \in cut \cap shared : environ[k].name = n

\* The value of the first; SysUtil.getenv returns it, or null.
getenv(n) == IF PlacesOf(n) = {} THEN Unset ELSE environ[Min(PlacesOf(n))].value

\* A variable is given another string in its place, in the array in use; a new
\* one comes to the end of a new array.
setenv(n, v) ==
    LET new == [name |-> n, value |-> v]
        k == Min(PlacesOf(n))
    IN IF PlacesOf(n) # {}
       THEN /\ environ' = [environ EXCEPT ![k] = new]
            /\ IF moved THEN shared' = shared \ {k} /\ UNCHANGED envp
               ELSE envp' = [envp EXCEPT ![k] = new] /\ UNCHANGED shared
            /\ UNCHANGED <<moved, cut>>
       ELSE /\ Len(environ) < MaxEnv
            /\ environ' = Append(environ, new) /\ moved' = TRUE
            /\ UNCHANGED <<envp, shared, cut>>

-----------------------------------------------------------------------------
(* The hooks.                                                              *)

\* environment.n = v: the engine adds a property that is not there, which
\* env_resolve does not look for in an assignment, and calls the hook before it
\* stores the value.
env_setProperty(n, v) ==
    /\ setenv(n, v)
    /\ props' = Holding(props, n, v)
    /\ astray' = IF Hidden(n) THEN astray \cup {n} ELSE astray \ {n}
    /\ UNCHANGED <<reflected, listing>>

\* setenv(3) takes no empty name and none with a '=', and needs memory.
SetFails(n) ==
    /\ n \notin DOMAIN props
    /\ props' = Holding(props, n, Unset) /\ astray' = astray \cup {n}
    /\ UNCHANGED <<processVars, reflected, listing>>

\* A property that is asked for and not there is looked up in the process.
env_resolve(n) ==
    /\ n \notin DOMAIN props /\ getenv(n) # Unset
    /\ props' = Holding(props, n, getenv(n))
    /\ astray' = IF Hidden(n) THEN astray \cup {n} ELSE astray
    /\ UNCHANGED <<processVars, reflected, listing>>

\* No hook: the variable stays, and comes back when it is asked for.
DeleteProperty(n) ==
    /\ n \in DOMAIN props
    /\ props' = [m \in DOMAIN props \ {n} |-> props[m]]
    /\ UNCHANGED <<processVars, reflected, listing, astray>>

-----------------------------------------------------------------------------
(* env_enumerate, which lists the variables once.                          *)

ListingBegins(t) ==
    /\ listing[t] = 0 /\ ~reflected
    /\ listing' = [listing EXCEPT ![t] = 1]
    /\ UNCHANGED <<processVars, props, reflected, astray>>

Looking(t, k) == listing[t] = k /\ k \in DOMAIN envp

\* The '=' is overwritten, and the thread has a value to define.  A string that
\* has lost it to another thread is passed over.
CutsName(t, k) ==
    /\ Looking(t, k)
    /\ IF k \in cut THEN listing' = [listing EXCEPT ![t] = k + 1] /\ UNCHANGED cut
       ELSE listing' = [listing EXCEPT ![t] = -k] /\ cut' = cut \cup {k}
    /\ UNCHANGED <<envp, environ, moved, shared, props, reflected, astray>>

\* A mutant: it does not come back then.
LeavesCut(t, k) ==
    LET n == envp[k].name
    IN /\ listing[t] = -k
       /\ \/ /\ props' = Holding(props, n, envp[k].value)
             /\ astray' = IF k \in shared THEN astray ELSE astray \cup {n}
             /\ listing' = [listing EXCEPT ![t] = k + 1] /\ cut' = cut \ {k}
          \/ listing' = [listing EXCEPT ![t] = 0] /\ UNCHANGED <<props, astray, cut>>
       /\ UNCHANGED <<envp, environ, moved, shared, reflected>>

\* The '=' comes back, also if the property cannot be defined.
DefinesName(t, k) ==
    LET n == envp[k].name
    IN /\ listing[t] = -k
       /\ cut' = cut \ {k}
       /\ \/ /\ props' = Holding(props, n, envp[k].value)
             /\ astray' = IF k \in shared THEN astray ELSE astray \cup {n}
             /\ listing' = [listing EXCEPT ![t] = k + 1]
          \/ listing' = [listing EXCEPT ![t] = 0] /\ UNCHANGED <<props, astray>>
       /\ UNCHANGED <<envp, environ, moved, shared, reflected>>

ListingEnds(t) ==
    /\ listing[t] > Len(envp)
    /\ listing' = [listing EXCEPT ![t] = 0] /\ reflected' = TRUE
    /\ UNCHANGED <<processVars, props, astray>>

EnvironNext ==
    \/ \E n \in EnvNames :
          \/ \E v \in EnvValues : env_setProperty(n, v)
          \/ SetFails(n) \/ env_resolve(n) \/ DeleteProperty(n)
    \/ \E t \in EnvThreads :
          \/ ListingBegins(t) \/ ListingEnds(t)
          \/ \E k \in DOMAIN envp : CutsName(t, k) \/ DefinesName(t, k)

EnvironSpec == EnvironInit /\ [][EnvironNext]_envVars

-----------------------------------------------------------------------------
(* Properties.                                                             *)

\* When no thread is listing the variables, every string of the process has its
\* '=', also if the listing failed, and a property has the value of the variable.
\* Four things undo the latter, after which the name is astray until it is set
\* again: a variable that could not be set leaves a property without a value; a
\* listing after a variable was added brings back an old value, which main()'s
\* array still has; and a variable that is set while its '=' is missing gets a
\* second string, behind the first, which may also be the one that is copied.
EnvAgrees ==
    (\A t \in EnvThreads : listing[t] = 0) =>
        /\ cut = {}
        /\ \A n \in DOMAIN props \ astray : props[n] = getenv(n)
=============================================================================
