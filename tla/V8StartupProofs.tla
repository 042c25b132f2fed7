--------------------------- MODULE V8StartupProofs ---------------------------
(* Theorems about V8Startup, for any set of threads and any number of calls. *)
EXTENDS V8Startup, TLAPS

-----------------------------------------------------------------------------
(* The invariant. *)

\* No thread is anywhere, and V8 is not started, in an initial state.
LEMMA InitIInv == Init => IInv
<1> SUFFICES ASSUME Init PROVE IInv
  OBVIOUS
<1>0. loaded \in BOOLEAN
  BY Zenon DEF Init
<1>1. TypeOK
  <2>1. /\ library \in Libraries
        /\ v8Platform \in Threads \cup {"loader", NoPlatform}
        /\ installed \subseteq Threads \cup {"loader"}
        /\ current \in Threads \cup {"loader", NoPlatform}
        /\ ready \in BOOLEAN
        /\ callbacks \subseteq Callbacks
    BY DEF Init
  <2>2. /\ pc \in [Threads -> Places]
        /\ calls \in [Threads -> 0..MaxCalls]
        /\ safe \in [Threads -> BOOLEAN]
    BY StartupAssumption DEF Init, Places, StartupAssumption
  <2> QED
    BY <1>0, <2>1, <2>2 DEF TypeOK
<1>2. StartInv
  BY StartupAssumption DEF Init, StartInv, StartupAssumption
<1>3. SafeWhenPreloaded
  BY DEF Init, SafeWhenPreloaded, ReadyBeforeIsolate, OnePlatform
<1>4. CallbackInv
  BY DEF Init, CallbackInv
<1> QED
  BY <1>1, <1>2, <1>3, <1>4 DEF IInv

\* Loading the library starts V8 before any thread is inside it.
LEMMA LoadIInv == IInv /\ Load => IInv'
<1> SUFFICES ASSUME IInv, Load PROVE IInv'
  OBVIOUS
<1>1. library = "helper"
  BY StartupAssumption DEF IInv, TypeOK, Load, StartInv, StartupAssumption
<1>2. TypeOK'
  BY DEF IInv, TypeOK, Load
<1>3. StartInv'
  BY <1>1, StartupAssumption DEF IInv, TypeOK, StartInv, Load, StartupAssumption
<1>4. SafeWhenPreloaded'
  BY <1>1 DEF IInv, SafeWhenPreloaded, ReadyBeforeIsolate, OnePlatform, Load
<1>5. CallbackInv'
  BY DEF IInv, CallbackInv, Load
<1> QED
  BY <1>2, <1>3, <1>4, <1>5 DEF IInv

\* The steps of a thread on its way through initV8.
LEMMA StartIInv ==
  ASSUME IInv, NEW t \in Threads,
         Call(t) \/ TestPlatform(t) \/ CreatePlatform(t)
           \/ InstallPlatform(t) \/ Initialize(t)
  PROVE  IInv'
<1>1. TypeOK'
  <2>1. CASE Call(t)
    <3>1. calls[t] + 1 \in 0..MaxCalls
      BY <2>1, StartupAssumption DEF IInv, TypeOK, Call, StartupAssumption
    <3> QED
      BY <2>1, <3>1 DEF IInv, TypeOK, Call, Goto, v8, Places
  <2>2. CASE TestPlatform(t)
    BY <2>2 DEF IInv, TypeOK, TestPlatform, Goto, v8, Places
  <2>3. CASE CreatePlatform(t)
    BY <2>3 DEF IInv, TypeOK, CreatePlatform, Goto, v8, Places
  <2>4. CASE InstallPlatform(t)
    BY <2>4 DEF IInv, TypeOK, StartInv, InstallPlatform, Goto, v8, Places
  <2>5. CASE Initialize(t)
    BY <2>5 DEF IInv, TypeOK, Initialize, Goto, v8, Places
  <2> QED
    BY <2>1, <2>2, <2>3, <2>4, <2>5
<1>2. StartInv'
  BY StartupAssumption
  DEF IInv, TypeOK, StartInv, Call, TestPlatform, CreatePlatform, InstallPlatform,
      Initialize, Goto, v8, Places, StartupAssumption
<1>3. SafeWhenPreloaded'
  BY DEF IInv, TypeOK, StartInv, SafeWhenPreloaded, ReadyBeforeIsolate, OnePlatform,
         Call, TestPlatform, CreatePlatform, InstallPlatform, Initialize, Goto, v8
<1>4. CallbackInv'
  <2>1. /\ pc \in [Threads -> Places] /\ CallbackInv /\ callbacks' = callbacks /\ library' = library
        /\ library = "connector" \/ pc[t] = "java"
    BY StartupAssumption
    DEF IInv, TypeOK, StartInv, Call, TestPlatform, CreatePlatform, InstallPlatform,
        Initialize, v8, StartupAssumption
  <2>3. pc[t] # "register"
    BY <2>1 DEF Call, TestPlatform, CreatePlatform, InstallPlatform, Initialize
  <2>4. PICK place \in Places : /\ pc' = [pc EXCEPT ![t] = place]
                                /\ place \in {"engine", "script"} => library = "connector"
                                /\ place \in {"guard", "register"} => library = "helper"
    BY <2>1 DEF Call, TestPlatform, CreatePlatform, InstallPlatform, Initialize, Goto, Places
  <2>5. callbacks # {} /\ callbacks # Callbacks => \E u \in Threads : pc'[u] = "register"
    BY <2>1, <2>3, <2>4 DEF CallbackInv
  <2>6. ASSUME NEW u \in Threads, library = "helper", pc'[u] \in {"engine", "script"}
        PROVE  "tiles" \in callbacks
    BY <2>1, <2>4, <2>6 DEF CallbackInv
  <2>7. ASSUME NEW u \in Threads, library = "connector"
        PROVE  pc'[u] \notin {"guard", "register"}
    BY <2>1, <2>4, <2>7 DEF CallbackInv
  <2> QED
    BY <2>1, <2>5, <2>6, <2>7 DEF CallbackInv
<1> QED
  BY <1>1, <1>2, <1>3, <1>4 DEF IInv

\* The steps of a thread that sees to the callbacks.
LEMMA CallbackIInv ==
  ASSUME IInv, NEW t \in Threads, TestCallbacks(t) \/ Register(t)
  PROVE  IInv'
<1>1. TypeOK'
  BY DEF IInv, TypeOK, TestCallbacks, Register, Goto, v8, Places
<1>2. StartInv'
  BY DEF IInv, TypeOK, StartInv, TestCallbacks, Register, Goto, v8, Places
<1>3. SafeWhenPreloaded'
  BY DEF IInv, TypeOK, SafeWhenPreloaded, ReadyBeforeIsolate, OnePlatform,
         TestCallbacks, Register, Goto, v8
<1>4. CallbackInv'
  <2>1. /\ pc \in [Threads -> Places] /\ CallbackInv /\ library' = library
        /\ library # "connector"
    BY DEF IInv, TypeOK, CallbackInv, TestCallbacks, Register
  <2>2. CASE TestCallbacks(t)
    BY <2>1, <2>2 DEF CallbackInv, TestCallbacks, Goto
  <2>3. CASE Register(t) /\ callbacks = Callbacks
    <3>1. callbacks' = Callbacks /\ pc' = [pc EXCEPT ![t] = "engine"]
      BY <2>3 DEF Register, Goto
    <3> QED
      BY <2>1, <2>3, <3>1 DEF CallbackInv, Callbacks
  <2>4. CASE Register(t) /\ callbacks # Callbacks
    <3>1. callbacks \subseteq callbacks' /\ pc' = pc /\ pc[t] = "register"
      BY <2>4 DEF Register
    <3> QED
      BY <2>1, <3>1 DEF CallbackInv
  <2> QED
    BY <2>2, <2>3, <2>4
<1> QED
  BY <1>1, <1>2, <1>3, <1>4 DEF IInv

\* The steps of a thread with an engine.
LEMMA EngineIInv ==
  ASSUME IInv, NEW t \in Threads, NewIsolate(t) \/ Return(t)
  PROVE  IInv'
<1>1. TypeOK'
  BY DEF IInv, TypeOK, NewIsolate, Return, Goto, v8, Places
<1>2. StartInv'
  BY DEF IInv, TypeOK, StartInv, NewIsolate, Return, Goto, v8, Places
<1>3. SafeWhenPreloaded'
  BY DEF IInv, TypeOK, StartInv, SafeWhenPreloaded, ReadyBeforeIsolate, OnePlatform,
         NewIsolate, Return, Goto, v8
<1>4. CallbackInv'
  BY DEF IInv, TypeOK, CallbackInv, NewIsolate, Return, Goto, Places
<1> QED
  BY <1>1, <1>2, <1>3, <1>4 DEF IInv

\* A step that changes nothing.
LEMMA StutterIInv == IInv /\ UNCHANGED vars => IInv'
  BY DEF IInv, TypeOK, StartInv, CallbackInv, SafeWhenPreloaded, ReadyBeforeIsolate,
         OnePlatform, vars, v8

\* IInv is inductive: every step of every thread preserves it.
THEOREM StartupInvariant == Spec => []IInv
<1>1. IInv /\ [Next]_vars => IInv'
  BY LoadIInv, StartIInv, CallbackIInv, EngineIInv, StutterIInv DEF Next, Done
<1> QED
  BY InitIInv, <1>1, PTL DEF Spec

\* Every variable stays in its domain.
THEOREM TypeCorrect == Spec => []TypeOK
  BY StartupInvariant, PTL DEF IInv

\* A library that starts V8 when it is loaded never makes an isolate too early and
\* gives V8 one platform, whatever its threads do.
THEOREM PreloadedIsSafe == Spec => []SafeWhenPreloaded
  BY StartupInvariant, PTL DEF IInv

\* A script of the helper is without a callback only while another thread stores them.
THEOREM CallbacksMissOnlyAtFirst == Spec => []MissingOnlyAtFirst
<1>1. IInv => MissingOnlyAtFirst
  <2> SUFFICES ASSUME IInv, NEW t \in Threads, library = "helper", pc[t] = "script",
                      callbacks # Callbacks
               PROVE  \E u \in Threads \ {t} : pc[u] = "register"
    BY DEF MissingOnlyAtFirst
  <2>1. \E u \in Threads : pc[u] = "register"
    BY DEF IInv, CallbackInv
  <2> QED
    BY <2>1
<1> QED
  BY StartupInvariant, <1>1, PTL

-----------------------------------------------------------------------------
(* The start is over for good. *)

\* One step of any thread, taken when the start is over, leaves it over.
LEMMA SettledStep ==
  ASSUME IInv, [Next]_vars, Settled
  PROVE  /\ Settled'
         /\ UNCHANGED v8
         /\ \A t \in Threads : safe[t] => safe'[t]
<1>1. CASE Load
  BY <1>1, StartupAssumption DEF IInv, TypeOK, StartInv, Settled, Load, v8, StartupAssumption
<1>2. ASSUME NEW t \in Threads,
             Call(t) \/ TestPlatform(t) \/ CreatePlatform(t)
               \/ InstallPlatform(t) \/ Initialize(t) \/ TestCallbacks(t)
               \/ Register(t) \/ NewIsolate(t) \/ Return(t)
      PROVE  /\ Settled'
             /\ UNCHANGED v8
             /\ \A u \in Threads : safe[u] => safe'[u]
  <2>1. pc \in [Threads -> Places] /\ safe \in [Threads -> BOOLEAN]
    BY DEF IInv, TypeOK
  <2>2. ready /\ v8Platform # NoPlatform
    BY DEF IInv, StartInv, Settled
  <2>3. pc[t] \notin {"create", "install", "initialize"}
    BY <1>2 DEF Settled
  <2>4. \/ Call(t) \/ TestPlatform(t) \/ TestCallbacks(t) \/ Register(t)
        \/ NewIsolate(t) \/ Return(t)
    BY <1>2, <2>3 DEF CreatePlatform, InstallPlatform, Initialize
  <2>5. UNCHANGED v8
    BY <2>4 DEF Call, TestPlatform, TestCallbacks, Register, NewIsolate, Return
  <2>6. \/ pc' = pc
        \/ \E place \in Places \ {"create", "install", "initialize"} :
             pc' = [pc EXCEPT ![t] = place]
    BY <2>2, <2>4
    DEF Call, TestPlatform, TestCallbacks, Register, NewIsolate, Return, Goto, Places
  <2>7. Settled'
    BY <2>1, <2>2, <2>5, <2>6 DEF Settled, v8
  <2>8. safe' = safe \/ safe' = [safe EXCEPT ![t] = TRUE]
    BY <2>2, <2>4, Zenon DEF Call, TestPlatform, TestCallbacks, Register, NewIsolate, Return
  <2>9. \A u \in Threads : safe[u] => safe'[u]
    BY <2>1, <2>8
  <2> QED
    BY <2>5, <2>7, <2>9
<1>3. CASE UNCHANGED vars
  BY <1>3 DEF Settled, vars, v8
<1> QED
  BY <1>1, <1>2, <1>3 DEF Next, Done

\* Once the start is over no call replaces the platform or makes an unsafe isolate.
THEOREM StartIsOverForGood == Spec => SettledForGood
<1>1. IInv /\ [Next]_vars =>
        [Settled => /\ Settled'
                    /\ UNCHANGED v8
                    /\ \A t \in Threads : safe[t] => safe'[t]]_vars
  BY SettledStep
<1> QED
  BY StartupInvariant, <1>1, PTL DEF Spec, SettledForGood

-----------------------------------------------------------------------------
(* A start that nothing interrupts. *)

\* A step that leaves V8 alone and does not take its thread into the start, from
\* where it may stand to where it may stand.
LEMMA BesideStart ==
  ASSUME IInv, AloneInv, NEW t \in Threads, UNCHANGED <<library, v8>>,
         pc' = pc \/ (\E place \in Places \ {"create", "install", "initialize"} :
                        /\ pc' = [pc EXCEPT ![t] = place]
                        /\ /\ place \in {"engine", "script", "checker", "compile"}
                           /\ library = "connector"
                           => ready),
         pc[t] \notin {"install", "initialize"},
         safe' = safe \/ (safe' = [safe EXCEPT ![t] = ready] /\ (library = "connector" => ready))
  PROVE  AloneInv'
<1> SUFFICES ASSUME library = "connector" PROVE AloneInv'
  BY DEF AloneInv
<1>1. pc \in [Threads -> Places] /\ safe \in [Threads -> BOOLEAN]
  BY DEF IInv, TypeOK
<1>2. v8Platform' = v8Platform /\ installed' = installed /\ current' = current /\ ready' = ready
  BY DEF v8
<1>3. \A u \in Threads : \/ pc'[u] = pc[u]
                         \/ /\ pc'[u] \notin {"create", "install", "initialize"}
                            /\ pc'[u] \in {"engine", "script", "checker", "compile"} => ready
  BY <1>1
<1>4. \A u \in Threads : pc[u] \in {"install", "initialize"} => pc'[u] = pc[u]
  BY <1>1
<1>5. \A u \in Threads : safe'[u]
  <2>1. \A u \in Threads : safe[u]
    BY DEF AloneInv
  <2> QED
    BY <1>1, <2>1
<1> QED
  BY <1>2, <1>3, <1>4, <1>5 DEF AloneInv

\* A step of a thread on its way through initV8, while no other thread is inside.
LEMMA StartAlone ==
  ASSUME IInv, AloneInv, Uninterrupted, NEW t \in Threads,
         TestPlatform(t) \/ CreatePlatform(t) \/ InstallPlatform(t) \/ Initialize(t)
  PROVE  AloneInv'
<1>1. library = "connector"
  BY StartupAssumption
  DEF IInv, TypeOK, StartInv, TestPlatform, CreatePlatform, InstallPlatform, Initialize,
      StartupAssumption
<1>2. /\ pc \in [Threads -> Places] /\ safe \in [Threads -> BOOLEAN]
      /\ safe' = safe /\ library' = library
      /\ \A u \in Threads : safe[u]
  BY <1>1
  DEF IInv, TypeOK, AloneInv, TestPlatform, CreatePlatform, InstallPlatform, Initialize
<1>3. CASE TestPlatform(t) /\ v8Platform # NoPlatform
  <2>1. ready
    BY <1>1, <1>3 DEF AloneInv, Uninterrupted, TestPlatform
  <2>2. pc' = [pc EXCEPT ![t] = "engine"] /\ UNCHANGED v8 /\ pc[t] = "test"
    BY <1>3 DEF TestPlatform, Goto
  <2> QED
    BY <1>2, <2>1, <2>2, BesideStart DEF Places
<1>4. CASE TestPlatform(t) /\ v8Platform = NoPlatform
  <2>1. pc' = [pc EXCEPT ![t] = "create"] /\ pc[t] = "test"
    BY <1>4 DEF TestPlatform, Goto
  <2>2. v8Platform' = v8Platform /\ installed' = installed /\ current' = current /\ ready' = ready
    BY <1>4 DEF TestPlatform, v8
  <2> QED
    BY <1>1, <1>2, <1>4, <2>1, <2>2 DEF AloneInv
<1>5. CASE CreatePlatform(t)
  <2>1. pc' = [pc EXCEPT ![t] = "install"] /\ pc[t] = "create" /\ v8Platform' = t
    BY <1>5 DEF CreatePlatform, Goto
  <2>2. installed' = installed /\ current' = current /\ ready' = ready
    BY <1>5 DEF CreatePlatform
  <2>3. t # NoPlatform
    BY StartupAssumption DEF StartupAssumption
  <2>4. \A u \in Threads : u # t => pc[u] = "java"
    BY <2>1 DEF Uninterrupted
  <2> QED
    BY <1>1, <1>2, <2>1, <2>2, <2>3, <2>4 DEF AloneInv
<1>6. CASE InstallPlatform(t)
  <2>1. pc' = [pc EXCEPT ![t] = "initialize"] /\ pc[t] = "install"
    BY <1>6 DEF InstallPlatform, Goto
  <2>2. /\ v8Platform' = v8Platform /\ installed' = installed \cup {v8Platform}
        /\ current' = v8Platform /\ ready' = ready
    BY <1>6 DEF InstallPlatform
  <2>3. v8Platform # NoPlatform
    BY <2>1 DEF IInv, StartInv
  <2>4. \A u \in Threads : u # t => pc[u] = "java"
    BY <2>1 DEF Uninterrupted
  <2>5. installed = {} /\ ~ready
    BY <1>1, <2>1 DEF AloneInv
  <2> QED
    BY <1>1, <1>2, <2>1, <2>2, <2>3, <2>4, <2>5 DEF AloneInv
<1>7. CASE Initialize(t)
  <2>1. pc' = [pc EXCEPT ![t] = "engine"] /\ pc[t] = "initialize" /\ ready' = TRUE
    BY <1>7 DEF Initialize, Goto
  <2>2. v8Platform' = v8Platform /\ installed' = installed /\ current' = current
    BY <1>7 DEF Initialize
  <2>3. v8Platform # NoPlatform
    BY <2>1 DEF IInv, StartInv
  <2>4. \A u \in Threads : u # t => pc[u] = "java"
    BY <2>1 DEF Uninterrupted
  <2>5. installed = {v8Platform} /\ current = v8Platform
    BY <1>1, <2>1 DEF AloneInv
  <2> QED
    BY <1>1, <1>2, <2>1, <2>2, <2>3, <2>4, <2>5 DEF AloneInv
<1> QED
  BY <1>3, <1>4, <1>5, <1>6, <1>7

\* Every step from a state in which nothing interrupts the start preserves AloneInv.
LEMMA AloneStep == IInv /\ AloneInv /\ Uninterrupted /\ [Next]_vars => AloneInv'
<1> SUFFICES ASSUME IInv, AloneInv, Uninterrupted, [Next]_vars PROVE AloneInv'
  OBVIOUS
<1>1. CASE Load
  BY <1>1, StartupAssumption DEF IInv, TypeOK, StartInv, AloneInv, Load, StartupAssumption
<1>2. ASSUME NEW t \in Threads, Call(t) \/ TestCallbacks(t) \/ Register(t)
      PROVE  AloneInv'
  <2>1. UNCHANGED <<library, v8, safe>> /\ pc[t] \notin {"install", "initialize"}
    BY <1>2 DEF Call, TestCallbacks, Register
  <2>2. \/ pc' = pc
        \/ library = "connector" /\ pc' = [pc EXCEPT ![t] = "test"]
        \/ /\ library # "connector"
           /\ \E place \in {"guard", "checker", "engine", "register"} :
                pc' = [pc EXCEPT ![t] = place]
    BY <1>2 DEF Call, TestCallbacks, Register, Goto, IInv, CallbackInv
  <2> QED
    BY <2>1, <2>2, BesideStart DEF Places
<1>3. ASSUME NEW t \in Threads, NewIsolate(t) PROVE AloneInv'
  <2>1. UNCHANGED <<library, v8>> /\ pc[t] \in {"engine", "checker"}
    BY <1>3 DEF NewIsolate
  <2>2. library = "connector" => ready
    BY <2>1 DEF AloneInv
  <2>3. safe' = [safe EXCEPT ![t] = ready]
    BY <1>3 DEF NewIsolate
  <2>4. \E place \in {"script", "compile"} : pc' = [pc EXCEPT ![t] = place]
    BY <1>3 DEF NewIsolate, Goto
  <2> QED
    BY <2>1, <2>2, <2>3, <2>4, BesideStart DEF Places
<1>4. ASSUME NEW t \in Threads, Return(t) PROVE AloneInv'
  <2>1. /\ UNCHANGED <<library, v8, safe>> /\ pc[t] \notin {"install", "initialize"}
        /\ pc' = [pc EXCEPT ![t] = "java"]
    BY <1>4 DEF Return, Goto
  <2>2. "java" \in Places \ {"create", "install", "initialize"}
    BY DEF Places
  <2> QED
    BY <2>1, <2>2, BesideStart
<1>5. CASE UNCHANGED vars
  BY <1>5 DEF AloneInv, vars, v8
<1> QED
  BY <1>1, <1>2, <1>3, <1>4, <1>5, StartAlone DEF Next, Done

\* While no call interrupts another that starts V8, every isolate is made by a V8 that
\* is ready, and V8 is given one platform, with either library.
THEOREM AloneIsSafe == Spec => SafeWhenAlone
<1>1. Init => AloneInv
  BY DEF Init, AloneInv
<1>2. IInv /\ AloneInv => ReadyBeforeIsolate /\ OnePlatform
  <2> SUFFICES ASSUME IInv, AloneInv PROVE ReadyBeforeIsolate /\ OnePlatform
    OBVIOUS
  <2>1. CASE library = "helper"
    BY <2>1 DEF IInv, SafeWhenPreloaded
  <2>2. CASE library = "connector"
    <3>1. ready \/ installed = {} \/ installed = {v8Platform}
      BY <2>2 DEF AloneInv
    <3> QED
      BY <2>2, <3>1 DEF AloneInv, ReadyBeforeIsolate, OnePlatform
  <2> QED
    BY <2>1, <2>2, StartupAssumption DEF IInv, TypeOK, StartupAssumption
<1> QED
  BY StartupInvariant, <1>1, <1>2, AloneStep, PTL DEF Spec, SafeWhenAlone
=============================================================================
