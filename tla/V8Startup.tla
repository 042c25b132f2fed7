------------------------------ MODULE V8Startup ------------------------------
(***************************************************************************)
(* How the process-wide V8 is started under the threads of a Java virtual  *)
(* machine that call the native libraries of src/pe_tilecompute.           *)
(*                                                                         *)
(* The library "helper" (TileComputeV8Helper.cpp) runs PixelEngine::initV8 *)
(* in JNI_OnLoad, before the machine lets any thread call it.  The library *)
(* "connector" (HBasePeHelperCppConnector) has no such function: each of   *)
(* its entry points that runs a script calls initV8 first.  initV8 tests   *)
(* the static v8Platform, and creates, installs and initialises without a  *)
(* lock.  The engine that a call creates afterwards makes an isolate of    *)
(* its own and disposes of it before the call returns.                     *)
(*                                                                         *)
(* The helper also has three static callbacks through which scripts get at *)
(* their data.  The first call that runs a script stores them, again       *)
(* without a lock, if the second is null; the connector has none, and      *)
(* gives every engine a helper object instead.                             *)
(***************************************************************************)
EXTENDS Naturals, FiniteSets

CONSTANTS
  Threads,    \* the threads of the Java virtual machine
  Libraries,  \* which library the process has loaded
  NoPlatform, \* the null v8Platform
  MaxCalls    \* how many calls a thread makes (a bound, for TLC)

ASSUME StartupAssumption ==
  /\ Libraries \subseteq {"helper", "connector"}
  /\ NoPlatform \notin Threads \cup {"loader"}
  /\ "loader" \notin Threads
  /\ MaxCalls \in Nat

VARIABLES
  library,    \* the library of this process
  loaded,     \* JNI_OnLoad has returned, or there is none
  callbacks,  \* those of the static pointers to callbacks that are set
  v8Platform, \* the owner of the platform, named by the thread that made it
  installed,  \* the platforms that V8 has been given, the last one given,
  current,    \*   and
  ready,      \*   whether V8::Initialize has run
  pc,         \* where each thread is
  calls,      \* how many calls it has made
  safe        \* history: its isolate was made by an initialised V8

v8 == <<v8Platform, installed, current, ready>>
vars == <<library, loaded, callbacks, v8, pc, calls, safe>>

Callbacks == {"tile", "tiles", "ramp"}

Places == {"java", "test", "create", "install", "initialize", "guard", "register",
           "engine", "script", "checker", "compile"}

Init ==
  /\ library \in Libraries
  /\ loaded = (library = "connector")
  /\ callbacks = {}
  /\ v8Platform = NoPlatform
  /\ installed = {}
  /\ current = NoPlatform
  /\ ready = FALSE
  /\ pc = [t \in Threads |-> "java"]
  /\ calls = [t \in Threads |-> 0]
  /\ safe = [t \in Threads |-> TRUE]

Goto(t, place) == pc' = [pc EXCEPT ![t] = place]

\* JNI_OnLoad, on the one thread that loads the library.
Load_Slip ==
  /\ ~loaded
  /\ loaded' = TRUE
  /\ UNCHANGED <<library, callbacks, v8, pc, calls, safe>>
Load ==
  /\ ~loaded
  /\ loaded' = TRUE
  /\ v8Platform' = "loader"
  /\ installed' = {"loader"}
  /\ current' = "loader"
  /\ ready' = TRUE
  /\ UNCHANGED <<library, callbacks, pc, calls, safe>>

\* A native method is called: the connector's start with initV8; the helper's see
\* to the callbacks, but for CheckScriptOK, which only compiles.
Call(t) ==
  /\ loaded
  /\ pc[t] = "java"
  /\ calls[t] < MaxCalls
  /\ calls' = [calls EXCEPT ![t] = @ + 1]
  /\ \/ library = "connector" /\ Goto(t, "test")
     \/ library = "helper" /\ \E place \in {"guard", "checker"} : Goto(t, place)
  /\ UNCHANGED <<library, loaded, callbacks, v8, safe>>

\* if( v8Platform ): the data race.  What another thread has stored counts.
TestPlatform(t) ==
  /\ pc[t] = "test"
  /\ Goto(t, IF v8Platform = NoPlatform THEN "create" ELSE "engine")
  /\ UNCHANGED <<library, loaded, callbacks, v8, calls, safe>>

\* v8Platform = NewDefaultPlatform(): a unique_ptr, what it owned before is deleted.
CreatePlatform_Slip(t) ==
  /\ pc[t] = "create"
  /\ Goto(t, "install")
  /\ UNCHANGED <<library, loaded, callbacks, v8, calls, safe>>
CreatePlatform(t) ==
  /\ pc[t] = "create"
  /\ v8Platform' = t
  /\ Goto(t, "install")
  /\ UNCHANGED <<library, loaded, callbacks, installed, current, ready, calls, safe>>

InstallPlatform(t) ==
  /\ pc[t] = "install"
  /\ installed' = installed \cup {v8Platform}
  /\ current' = v8Platform
  /\ Goto(t, "initialize")
  /\ UNCHANGED <<library, loaded, callbacks, v8Platform, ready, calls, safe>>

Initialize(t) ==
  /\ pc[t] = "initialize"
  /\ ready' = TRUE
  /\ Goto(t, "engine")
  /\ UNCHANGED <<library, loaded, callbacks, v8Platform, installed, current, calls, safe>>

\* if( GetExternalTileDataArrCallBack == nullptr ): the second of the three.
TestCallbacks(t) ==
  /\ pc[t] = "guard"
  /\ Goto(t, IF "tiles" \in callbacks THEN "engine" ELSE "register")
  /\ UNCHANGED <<library, loaded, callbacks, v8, calls, safe>>

\* The three stores, which a compiler may put in any order; storing a callback that
\* is set changes nothing.
Register_Slip(t) ==
  /\ pc[t] = "register"
  /\ IF {"tile", "tiles"} \subseteq callbacks
     THEN Goto(t, "engine") /\ UNCHANGED callbacks
     ELSE /\ \E c \in Callbacks \ callbacks : callbacks' = callbacks \cup {c}
          /\ UNCHANGED pc
  /\ UNCHANGED <<library, loaded, v8, calls, safe>>
Register(t) ==
  /\ pc[t] = "register"
  /\ IF callbacks = Callbacks
     THEN Goto(t, "engine") /\ UNCHANGED callbacks
     ELSE /\ \E c \in Callbacks \ callbacks : callbacks' = callbacks \cup {c}
          /\ UNCHANGED pc
  /\ UNCHANGED <<library, loaded, v8, calls, safe>>

\* Isolate::New in a Run... method of the engine, or in CheckScriptOk.
NewIsolate(t) ==
  /\ pc[t] \in {"engine", "checker"}
  /\ safe' = [safe EXCEPT ![t] = ready]
  /\ Goto(t, IF pc[t] = "engine" THEN "script" ELSE "compile")
  /\ UNCHANGED <<library, loaded, callbacks, v8, calls>>

\* The script has run (or has been compiled), the isolate is disposed of, the call
\* returns.
Return(t) ==
  /\ pc[t] \in {"script", "compile"}
  /\ Goto(t, "java")
  /\ UNCHANGED <<library, loaded, callbacks, v8, calls, safe>>

Done ==
  /\ \A t \in Threads : pc[t] = "java" /\ calls[t] = MaxCalls
  /\ UNCHANGED vars

Next ==
  \/ Load
  \/ \E t \in Threads : \/ Call(t) \/ TestPlatform(t) \/ CreatePlatform(t)
                        \/ InstallPlatform(t) \/ Initialize(t)
                        \/ TestCallbacks(t) \/ Register(t)
                        \/ NewIsolate(t) \/ Return(t)
  \/ Done

Spec == Init /\ [][Next]_vars

-----------------------------------------------------------------------------

\* Every variable stays in its domain: platforms are made by threads or at loading.
TypeOK ==
  /\ library \in Libraries
  /\ loaded \in BOOLEAN
  /\ callbacks \subseteq Callbacks
  /\ v8Platform \in Threads \cup {"loader", NoPlatform}
  /\ installed \subseteq Threads \cup {"loader"}
  /\ current \in Threads \cup {"loader", NoPlatform}
  /\ ready \in BOOLEAN
  /\ pc \in [Threads -> Places]
  /\ calls \in [Threads -> 0..MaxCalls]
  /\ safe \in [Threads -> BOOLEAN]

\* v8.h:8467 "V8::Initialize() must have run prior to this": no thread makes an
\* isolate before V8 is ready.
ReadyBeforeIsolate == \A t \in Threads : safe[t]

\* The platform that V8 works with is the one the process still owns, and it is
\* the only one V8 has ever been given (PixelEngine.cpp:5336-5351).
OnePlatform ==
  /\ ready => current = v8Platform
  /\ \A p, q \in installed : p = q

\* A library that starts V8 when it is loaded serves any number of threads safely,
\* from their very first calls (TileComputeV8Helper.cpp:44-48).
SafeWhenPreloaded == library = "helper" => ReadyBeforeIsolate /\ OnePlatform

\* A script of the helper can be without a callback (and find no data, or no colour
\* ramp) only while another thread is still in the very first calls, storing them;
\* once no thread is, all scripts have all three (TileComputeV8Helper.cpp:391-397).
MissingOnlyAtFirst ==
  \A t \in Threads :
    library = "helper" /\ pc[t] = "script" /\ callbacks # Callbacks =>
      \E u \in Threads \ {t} : pc[u] = "register"

\* Without a library that starts V8 when it is loaded, it is enough that no call comes
\* in while another is between the test and the end of the start, as under a lock, or
\* with a first call that returns before there is a second (PixelEngine.cpp:5336-5351).
Uninterrupted ==
  \A t, u \in Threads :
    t # u /\ pc[t] \in {"create", "install", "initialize"} => pc[u] = "java"
SafeWhenAlone == []Uninterrupted => [](ReadyBeforeIsolate /\ OnePlatform)

\* The start is over: V8 is ready and no thread is on its way to start it again.
Settled ==
  /\ ready
  /\ \A t \in Threads : pc[t] \notin {"create", "install", "initialize"}

\* Whatever the threads do, the start is over for good once it is over: no later
\* call replaces the platform, or makes an isolate that is not safe.
SettledForGood ==
  [][Settled =>
       /\ Settled'
       /\ UNCHANGED v8
       /\ \A t \in Threads : safe[t] => safe'[t]]_vars

-----------------------------------------------------------------------------
(* The strengthening of these properties that every step preserves. *)

\* A platform that is needed has been made, and with the helper only the loader's.
StartInv ==
  /\ library = "connector" => loaded
  /\ ~loaded => ~ready
  /\ ready => v8Platform # NoPlatform
  /\ \A t \in Threads : pc[t] \in {"install", "initialize"} => v8Platform # NoPlatform
  /\ library = "helper" =>
       /\ loaded => ready /\ v8Platform = "loader"
       /\ installed \subseteq {"loader"}
       /\ current = v8Platform
       /\ \A t \in Threads :
            /\ pc[t] \notin {"test", "create", "install", "initialize"}
            /\ pc[t] # "java" => loaded

\* Callbacks that are set in part are being set by some thread, and a thread past
\* the test has seen the second.
CallbackInv ==
  /\ callbacks # {} /\ callbacks # Callbacks => \E u \in Threads : pc[u] = "register"
  /\ \A t \in Threads :
       library = "helper" /\ pc[t] \in {"engine", "script"} => "tiles" \in callbacks
  /\ library = "connector" => \A t \in Threads : pc[t] \notin {"guard", "register"}

IInv == TypeOK /\ StartInv /\ CallbackInv /\ SafeWhenPreloaded

\* How far a start that is not interrupted has got: what it has made so far is there,
\* nothing else is, and no thread is past it.
AloneInv ==
  library = "connector" =>
    /\ v8Platform = NoPlatform => installed = {} /\ ~ready
    /\ v8Platform # NoPlatform /\ ~ready =>
         \E t \in Threads : pc[t] \in {"install", "initialize"}
    /\ ready => current = v8Platform /\ installed \subseteq {v8Platform}
    /\ \A t \in Threads :
         /\ pc[t] = "create" => v8Platform = NoPlatform
         /\ pc[t] \in {"create", "install"} => installed = {} /\ ~ready
         /\ pc[t] = "initialize" =>
              installed = {v8Platform} /\ current = v8Platform /\ ~ready
         /\ pc[t] \in {"engine", "script", "checker", "compile"} => ready
         /\ safe[t]
=============================================================================
