--------------------------- MODULE SharedServices_proofs ---------------------------
(***************************************************************************)
(* Theorems about services of nestjs-shared: InstrumentationRegistry, for  *)
(* every set of metrics, handlers and exporters, whatever hooks they have  *)
(* and whichever throw; MetricsRegistryService, for every set of names and *)
(* collectors; HttpClient, for every number of calls at a time; ObjectWalk, *)
(* for every graph; and RequestPipeline, for every number of requests,     *)
(* every deployment, input, exception and note.                            *)
(***************************************************************************)
EXTENDS InstrumentationRegistry, MetricsRegistryService, RequestPipeline, FiniteSetTheorems,
        SequenceTheorems, WellFoundedInduction, TLAPS

-----------------------------------------------------------------------------
(* Sequences                                                               *)

\* A set of numbers that is not empty has a least element.
LEMMA Least ==
  ASSUME NEW T, T \subseteq Nat, T # {}
  PROVE  \E x \in T : \A y \in T : x <= y
<1> DEFINE R == {ss \in Nat \X Nat : ss[1] < ss[2]}
<1>1. IsWellFoundedOn(R, Nat)
  BY NatLessThanWellFounded DEF OpToRel
<1> HIDE DEF R
<1>2. PICK x \in T : \A y \in T : ~ (<<y, x>> \in R)
  BY <1>1, WFMin
<1>3. \A y \in T : ~ (y < x)
  BY <1>2 DEF R
<1> QED
  BY <1>3

\* Splicing the first occurrence of a member out of an array leaves an array of members.
LEMMA SpliceKeepsMembers ==
  ASSUME NEW S, NEW s \in Seq(S), NEW h, Contains(s, h)
  PROVE  RemoveFirst(s, h) \in Seq(S)
<1> DEFINE I == {i \in 1 .. Len(s) : s[i] = h}
           at == Min(I)
<1>1. Len(s) \in Nat /\ \E i \in 1 .. Len(s) : s[i] = h
  BY LenProperties DEF Contains
<1> HIDE DEF I
<1>2. at \in I
  <2>1. I # {} /\ I \subseteq Nat
    BY <1>1 DEF I
  <2>2. \E x \in I : \A y \in I : x <= y
    BY <2>1, Least
  <2>3. (CHOOSE x \in I : \A y \in I : x <= y) \in I
    BY <2>2
  <2> QED
    BY <2>3 DEF Min
<1>3. RemoveFirst(s, h) = RemoveAt(s, at)
  BY <1>1 DEF RemoveFirst, SelectInSeq, I
<1>4. at \in 1 .. Len(s)
  BY <1>2 DEF I
<1> HIDE DEF at
<1>5. SubSeq(s, 1, at - 1) \in Seq(S)
  BY <1>1, <1>4, SubSeqProperties
<1>6. SubSeq(s, at + 1, Len(s)) \in Seq(S)
  BY <1>1, <1>4, SubSeqProperties
<1> QED
  BY <1>3, <1>5, <1>6, ConcatProperties DEF RemoveAt

\* A function on an initial segment of the numbers is a sequence.
LEMMA FunctionIsSequence ==
  ASSUME NEW S, NEW n \in Nat, NEW f \in [1 .. n -> S]
  PROVE  f \in Seq(S) /\ Len(f) = n
BY SeqDef

-----------------------------------------------------------------------------
(* Types                                                                   *)

\* The innermost call of RecordMetric.
LEMMA InnermostCall ==
  ASSUME TypeOK, calls # <<>>
  PROVE  /\ Len(calls) \in Nat \ {0} /\ DOMAIN calls = 1 .. Len(calls)
         /\ Call = calls[Len(calls)] /\ Call \in CallRecords
<1>1. calls \in Seq(CallRecords)
  BY DEF TypeOK
<1>2. Len(calls) \in Nat \ {0} /\ DOMAIN calls = 1 .. Len(calls)
  BY <1>1, LenProperties, EmptySeq
<1>3. calls[Len(calls)] \in CallRecords
  BY <1>1, <1>2, ElementOfSeq
<1> QED
  BY <1>2, <1>3 DEF Call, Last

\* The handler that the innermost call is about to call, and the call afterwards.
LEMMA HandlerCalled ==
  ASSUME TypeOK, CallHandler
  PROVE  /\ listeners[Call.metric] \in Seq(Handlers)
         /\ Call.next \in 1 .. Len(listeners[Call.metric])
         /\ [Call EXCEPT !.next = @ + 1, !.running = TRUE,
                         !.called = Append(@, listeners[Call.metric][Call.next])] \in CallRecords
<1>1. calls # <<>> /\ ~ LoopEnds
  BY DEF CallHandler
<1>2. Call \in CallRecords
  BY <1>1, InnermostCall
<1>3. /\ Call.metric \in Metrics /\ Call.next \in Nat \ {0} /\ Call.called \in Seq(Handlers)
      /\ Call.gone \in SUBSET Handlers
  BY <1>2 DEF CallRecords
<1>4. listeners[Call.metric] \in Seq(Handlers)
  BY <1>3 DEF TypeOK
<1>5. Call.next \in 1 .. Len(listeners[Call.metric])
  BY <1>1, <1>3, <1>4, LenProperties DEF LoopEnds
<1>6. listeners[Call.metric][Call.next] \in Handlers
  BY <1>4, <1>5, ElementOfSeq
<1>7. Append(Call.called, listeners[Call.metric][Call.next]) \in Seq(Handlers)
  BY <1>3, <1>6, AppendProperties
<1>8. Call.next + 1 \in Nat \ {0}
  BY <1>3
<1> QED
  BY <1>2, <1>4, <1>5, <1>7, <1>8 DEF CallRecords

\* Every step keeps the calls in progress, the listeners and the exporters of their kinds.
THEOREM TypeCorrect == Spec => []TypeOK
<1>1. Init => TypeOK
  <2> SUFFICES ASSUME Init PROVE TypeOK
    OBVIOUS
  <2>1. /\ descriptors \in Seq(Metrics) /\ exporters \in Seq(Exporters)
        /\ calls \in Seq(CallRecords) /\ log \in Seq(Metrics)
    BY EmptySeq DEF Init
  <2>2. /\ values \in [Metrics -> Seq(Nat)] /\ listeners \in [Metrics -> Seq(Handlers)]
        /\ announced \in [Exporters -> Seq(Metrics)] /\ received \in [Exporters -> Seq(Nat)]
    BY EmptySeq DEF Init
  <2> QED
    BY <2>1, <2>2 DEF Init, TypeOK
<1>2. TypeOK /\ [Next]_vars => TypeOK'
  <2> SUFFICES ASSUME TypeOK, [Next]_vars PROVE TypeOK'
    OBVIOUS
  <2>t. /\ descriptors \in Seq(Metrics) /\ values \in [Metrics -> Seq(Nat)]
        /\ exporters \in Seq(Exporters) /\ log \in Seq(Metrics)
        /\ listeners \in [Metrics -> Seq(Handlers)] /\ calls \in Seq(CallRecords)
        /\ announced \in [Exporters -> Seq(Metrics)] /\ received \in [Exporters -> Seq(Nat)]
        /\ registeredAt \in [Exporters -> Nat]
    BY DEF TypeOK
  <2>1. ASSUME NEW m \in Metrics, RegisterDescriptor(m) PROVE TypeOK'
    <3>1. /\ descriptors' = Append(descriptors, m) /\ values' = [values EXCEPT ![m] = <<>>]
          /\ UNCHANGED <<log, exporters, received, registeredAt, closeVars, listeners, calls>>
      BY <2>1 DEF RegisterDescriptor
    <3>2. descriptors' \in Seq(Metrics) /\ values' \in [Metrics -> Seq(Nat)]
      BY <2>t, <3>1, AppendProperties, EmptySeq
    <3>3. announced' \in [Exporters -> Seq(Metrics)]
      BY <2>t, <2>1, AppendProperties DEF RegisterDescriptor
    <3> QED
      BY <3>1, <3>2, <3>3 DEF TypeOK, closeVars
  <2>2. ASSUME NEW e \in Exporters, RegisterExporter(e) PROVE TypeOK'
    <3>1. /\ exporters' = Append(exporters, e)
          /\ registeredAt' = [registeredAt EXCEPT ![e] = Len(log)]
          /\ UNCHANGED <<storeVars, received, closeVars, listeners, calls>>
      BY <2>2 DEF RegisterExporter
    <3>2. exporters' \in Seq(Exporters) /\ registeredAt' \in [Exporters -> Nat]
      BY <2>t, <3>1, AppendProperties, LenProperties
    <3>3. announced' \in [Exporters -> Seq(Metrics)]
      BY <2>t, <2>2 DEF RegisterExporter
    <3> QED
      BY <3>1, <3>2, <3>3 DEF TypeOK, closeVars, storeVars
  <2>3. ASSUME NEW m \in Metrics, RecordMetric(m) PROVE TypeOK'
    <3>1. /\ log' = Append(log, m) /\ values' = [values EXCEPT ![m] = Pushed(values[m], Len(log) + 1)]
          /\ calls' = Append(calls, NewCall(m))
          /\ UNCHANGED <<descriptors, exporters, announced, registeredAt, closeVars, listeners>>
      BY <2>3 DEF RecordMetric
    <3>2. Len(log) + 1 \in Nat /\ log' \in Seq(Metrics)
      BY <2>t, <3>1, AppendProperties, LenProperties
    <3>3. Pushed(values[m], Len(log) + 1) \in Seq(Nat)
      <4>1. values[m] \in Seq(Nat)
        BY <2>t
      <4>2. /\ Append(values[m], Len(log) + 1) \in Seq(Nat)
            /\ Append(values[m], Len(log) + 1) # <<>>
        BY <3>2, <4>1, AppendProperties
      <4> QED
        BY <4>2, HeadTailProperties DEF Pushed
    <3>4. NewCall(m) \in CallRecords
      <4>1. <<>> \in Seq(Handlers) /\ {} \in SUBSET Handlers /\ 1 \in Nat \ {0}
        BY EmptySeq
      <4> QED
        BY <4>1, Zenon DEF NewCall, CallRecords
    <3>5. calls' \in Seq(CallRecords)
      BY <2>t, <3>1, <3>4, AppendProperties
    <3>6. received' \in [Exporters -> Seq(Nat)]
      BY <2>t, <2>3, <3>2, AppendProperties DEF RecordMetric
    <3> QED
      BY <2>t, <3>1, <3>2, <3>3, <3>5, <3>6 DEF TypeOK, closeVars
  <2>4. ASSUME calls # <<>>, NEW new \in CallRecords, calls' = [calls EXCEPT ![Len(calls)] = new],
               UNCHANGED <<storeVars, exporterVars, closeVars, listeners>>
        PROVE  TypeOK'
    <3>1. calls' \in Seq(CallRecords)
      BY <2>t, <2>4, ExceptSeq, InnermostCall
    <3> QED
      BY <3>1, <2>4 DEF TypeOK, storeVars, exporterVars, closeVars
  <2>5. ASSUME CallHandler PROVE TypeOK'
    <3>1. /\ calls # <<>>
          /\ calls' = [calls EXCEPT ![Len(calls)] =
               [Call EXCEPT !.next = @ + 1, !.running = TRUE,
                            !.called = Append(@, listeners[Call.metric][Call.next])]]
          /\ UNCHANGED <<storeVars, exporterVars, closeVars, listeners>>
      BY <2>5 DEF CallHandler
    <3> QED
      BY <2>5, <3>1, <2>4, HandlerCalled, InnermostCall
  <2>6. ASSUME HandlerReturns PROVE TypeOK'
    <3>1. /\ calls # <<>>
          /\ calls' = [calls EXCEPT ![Len(calls)] = [calls[Len(calls)] EXCEPT !.running = FALSE]]
          /\ UNCHANGED <<storeVars, exporterVars, closeVars, listeners>>
      BY <2>6 DEF HandlerReturns
    <3>2. [Call EXCEPT !.running = FALSE] \in CallRecords
      BY <3>1, InnermostCall DEF CallRecords
    <3> QED
      BY <3>1, <3>2, <2>4, InnermostCall
  <2>7. ASSUME RecordMetricReturns PROVE TypeOK'
    <3>1. /\ calls # <<>> /\ calls' = SubSeq(calls, 1, Len(calls) - 1)
          /\ UNCHANGED <<storeVars, exporterVars, closeVars, listeners>>
      BY <2>7 DEF RecordMetricReturns, Front
    <3>2. calls' \in Seq(CallRecords)
      BY <2>t, <3>1, InnermostCall, SubSeqProperties
    <3> QED
      BY <3>1, <3>2 DEF TypeOK, storeVars, exporterVars, closeVars
  <2>8. ASSUME NEW m \in Metrics, NEW h \in Handlers, On(m, h) PROVE TypeOK'
    <3>1. /\ listeners' = [listeners EXCEPT ![m] = Append(listeners[m], h)]
          /\ UNCHANGED <<storeVars, exporterVars, closeVars, calls>>
      BY <2>8 DEF On
    <3>2. listeners' \in [Metrics -> Seq(Handlers)]
      BY <2>t, <3>1, AppendProperties
    <3> QED
      BY <3>1, <3>2 DEF TypeOK, storeVars, exporterVars, closeVars
  <2>9. ASSUME NEW m \in Metrics, NEW h \in Handlers, Unsubscribe(m, h) PROVE TypeOK'
    <3>1. /\ Contains(listeners[m], h)
          /\ listeners' = [listeners EXCEPT ![m] = RemoveFirst(listeners[m], h)]
          /\ calls' = [k \in DOMAIN calls |->
               IF calls[k].metric = m THEN [calls[k] EXCEPT !.gone = @ \cup {h}] ELSE calls[k]]
          /\ UNCHANGED <<storeVars, exporterVars, closeVars>>
      BY <2>9 DEF Unsubscribe
    <3>2. listeners' \in [Metrics -> Seq(Handlers)]
      BY <2>t, <3>1, SpliceKeepsMembers
    <3>3. DOMAIN calls = 1 .. Len(calls) /\ Len(calls) \in Nat
      BY <2>t, LenProperties
    <3>4. \A k \in 1 .. Len(calls) : calls[k] \in CallRecords
      BY <2>t, ElementOfSeq
    <3>5. \A c \in CallRecords : [c EXCEPT !.gone = @ \cup {h}] \in CallRecords
      BY DEF CallRecords
    <3>6. calls' \in [1 .. Len(calls) -> CallRecords]
      BY <3>1, <3>3, <3>4, <3>5
    <3>7. calls' \in Seq(CallRecords)
      BY <3>3, <3>6, FunctionIsSequence
    <3> QED
      BY <3>1, <3>2, <3>7 DEF TypeOK, storeVars, exporterVars, closeVars
  <2>10. ASSUME Shutdown PROVE TypeOK'
    <3>1. /\ shutdown' = "pending" /\ status' \in [Exporters -> {"up", "closing", "closed", "failed"}]
          /\ UNCHANGED <<storeVars, exporterVars, listeners, calls>>
      BY <2>10 DEF Shutdown
    <3> QED
      BY <3>1 DEF TypeOK, storeVars, exporterVars
  <2>11. ASSUME NEW e \in Exporters, ShutdownSettles(e) PROVE TypeOK'
    <3>1. /\ \E result \in {"closed", "rejected"} : status' = [status EXCEPT ![e] = result]
          /\ UNCHANGED <<storeVars, exporterVars, shutdown, listeners, calls>>
      BY <2>11 DEF ShutdownSettles
    <3> QED
      BY <3>1 DEF TypeOK, storeVars, exporterVars
  <2>12. CASE ShutdownResolves \/ ShutdownRejects
    BY <2>12 DEF ShutdownResolves, ShutdownRejects, TypeOK, storeVars, exporterVars
  <2>13. CASE UNCHANGED vars
    BY <2>13 DEF TypeOK, vars, storeVars, exporterVars, closeVars
  <2> QED
    BY <2>1, <2>2, <2>3, <2>5, <2>6, <2>7, <2>8, <2>9, <2>10, <2>11, <2>12, <2>13 DEF Next
<1> QED
  BY <1>1, <1>2, PTL DEF Spec

-----------------------------------------------------------------------------
(* The window                                                              *)

\* Pushing the newest value, and shifting out the oldest when there are too many, keeps the
\* newest values.
LEMMA PushedKeepsNewest ==
  ASSUME NEW window \in Seq(Nat), NEW n \in Nat, NEW all \in SUBSET (1 .. n),
         KeepsNewest(window, all)
  PROVE  KeepsNewest(Pushed(window, n + 1), all \cup {n + 1})
<1> DEFINE long == Append(window, n + 1)
<1>1. MaxValues \in Nat \ {0} /\ Len(window) \in Nat
  BY BoundsAssumption, LenProperties
<1>d. DOMAIN window = 1 .. Len(window)
  BY LenProperties
<1>2. /\ long \in Seq(Nat) /\ long # <<>> /\ Len(long) = Len(window) + 1
      /\ \A i \in 1 .. Len(window) : long[i] = window[i]
      /\ long[Len(window) + 1] = n + 1
  BY AppendProperties, LenProperties
<1>3. Len(window) <= MaxValues
  BY <1>d DEF KeepsNewest
<1>12. \A i, j \in 1 .. Len(window) : i < j => window[i] < window[j]
  BY <1>d DEF KeepsNewest
<1>4. ASSUME NEW k \in all, \A i \in 1 .. Len(window) : window[i] # k
      PROVE  Len(window) = MaxValues /\ \A i \in 1 .. Len(window) : k < window[i]
  <2>1. k \notin ToSet(window)
    BY <1>d, <1>4 DEF ToSet
  <2> QED
    BY <1>d, <2>1 DEF KeepsNewest
<1>5. \A i \in 1 .. Len(window) : window[i] \in all /\ window[i] \in Nat /\ window[i] < n + 1
  <2>1. \A i \in 1 .. Len(window) : window[i] \in all
    BY <1>d DEF KeepsNewest, ToSet
  <2> QED
    BY <2>1
<1> HIDE DEF long
<1>6. ASSUME NEW i \in 1 .. Len(window) + 1, NEW j \in 1 .. Len(window) + 1, i < j
      PROVE  long[i] < long[j]
  <2>3. i \in 1 .. Len(window) /\ long[i] = window[i]
    BY <1>1, <1>2, <1>6
  <2>1. CASE j = Len(window) + 1
    BY <1>2, <1>5, <2>1, <2>3
  <2>2. CASE j # Len(window) + 1
    <3>1. j \in 1 .. Len(window) /\ long[j] = window[j]
      BY <1>1, <1>2, <2>2
    <3> QED
      BY <1>12, <1>6, <2>3, <3>1
  <2> QED
    BY <2>1, <2>2
<1>7. \A i \in 1 .. Len(window) + 1 : long[i] \in all \cup {n + 1} /\ long[i] \in Nat
  BY <1>1, <1>2, <1>5
<1>8. ASSUME NEW k \in all \cup {n + 1}, \A i \in 1 .. Len(window) + 1 : long[i] # k
      PROVE  Len(window) = MaxValues /\ \A i \in 1 .. Len(window) + 1 : k < long[i]
  <2>1. k \in all /\ k < n + 1 /\ \A i \in 1 .. Len(window) : window[i] # k
    BY <1>1, <1>2, <1>8
  <2>2. Len(window) = MaxValues /\ \A i \in 1 .. Len(window) : k < window[i]
    BY <1>4, <2>1
  <2> QED
    BY <1>1, <1>2, <2>1, <2>2
<1>9. ASSUME NEW w \in Seq(Nat), Len(w) <= MaxValues,
             \A i \in 1 .. Len(w) : w[i] \in all \cup {n + 1},
             \A i, j \in 1 .. Len(w) : i < j => w[i] < w[j],
             \A k \in all \cup {n + 1} : (\A i \in 1 .. Len(w) : w[i] # k) =>
                Len(w) = MaxValues /\ \A i \in 1 .. Len(w) : k < w[i]
      PROVE  KeepsNewest(w, all \cup {n + 1})
  <2>1. DOMAIN w = 1 .. Len(w)
    BY LenProperties
  <2>2. ToSet(w) \subseteq all \cup {n + 1}
    BY <1>9, <2>1 DEF ToSet
  <2>3. ASSUME NEW k \in (all \cup {n + 1}) \ ToSet(w)
        PROVE  Len(w) = MaxValues /\ \A i \in 1 .. Len(w) : k < w[i]
    <3>1. \A i \in 1 .. Len(w) : w[i] # k
      BY <2>1, <2>3 DEF ToSet
    <3> QED
      BY <1>9, <3>1
  <2> QED
    BY <1>9, <2>1, <2>2, <2>3 DEF KeepsNewest
<1>10. CASE Len(window) + 1 <= MaxValues
  <2>1. Pushed(window, n + 1) = long
    BY <1>1, <1>10 DEF Pushed, long
  <2>2. \A k \in all \cup {n + 1} : \E i \in 1 .. Len(window) + 1 : long[i] = k
    BY <1>1, <1>8, <1>10
  <2> QED
    BY <1>2, <1>6, <1>7, <1>9, <1>10, <2>1, <2>2
<1>11. CASE Len(window) + 1 > MaxValues
  <2> DEFINE short == Tail(long)
  <2>1. Pushed(window, n + 1) = short
    BY <1>1, <1>11 DEF Pushed, long
  <2>2. Len(window) = MaxValues
    BY <1>1, <1>3, <1>11
  <2>3. /\ short \in Seq(Nat) /\ Len(short) = MaxValues
        /\ \A i \in 1 .. MaxValues : short[i] = long[i + 1] /\ i + 1 \in 1 .. Len(window) + 1
    BY <1>1, <1>2, <2>2, HeadTailProperties
  <2> HIDE DEF short
  <2>4. \A i \in 1 .. MaxValues : short[i] \in all \cup {n + 1}
    BY <1>7, <2>3
  <2>5. ASSUME NEW i \in 1 .. MaxValues, NEW j \in 1 .. MaxValues, i < j
        PROVE  short[i] < short[j]
    <3>1. i + 1 \in 1 .. Len(window) + 1 /\ j + 1 \in 1 .. Len(window) + 1 /\ i + 1 < j + 1
      BY <1>1, <2>2, <2>5
    <3> QED
      BY <1>6, <2>3, <3>1
  <2>6. ASSUME NEW k \in all \cup {n + 1}, \A i \in 1 .. MaxValues : short[i] # k,
               NEW i \in 1 .. MaxValues
        PROVE  k < short[i]
    <3>1. 1 \in 1 .. Len(window) + 1 /\ long[1] < short[i]
      <4>1. /\ 1 \in 1 .. Len(window) + 1 /\ i + 1 \in 1 .. Len(window) + 1
            /\ 1 < i + 1
        BY <1>1, <2>2
      <4> QED
        BY <1>6, <2>3, <4>1
    <3>2. CASE \E j \in 1 .. Len(window) + 1 : long[j] = k
      <4>1. PICK j \in 1 .. Len(window) + 1 : long[j] = k
        BY <3>2
      <4>2. CASE j # 1
        <5>1. j - 1 \in 1 .. MaxValues /\ (j - 1) + 1 = j
          BY <1>1, <2>2, <4>2
        <5> QED
          BY <2>3, <2>6, <4>1, <5>1
      <4> QED
        BY <3>1, <4>1, <4>2
    <3>3. CASE \A j \in 1 .. Len(window) + 1 : long[j] # k
      BY <1>7, <1>8, <2>3, <3>3
    <3> QED
      BY <3>2, <3>3
  <2>7. MaxValues <= MaxValues
    BY <1>1
  <2> QED
    BY <1>9, <2>1, <2>3, <2>4, <2>5, <2>6, <2>7
<1> QED
  BY <1>1, <1>10, <1>11

\* What is recorded has a descriptor, an exporter that is registered was told of every
\* descriptor, and others of none.
Announcing ==
  /\ \A k \in DOMAIN log : log[k] \in ToSet(descriptors)
  /\ \A e \in Exporters :
       announced[e] = IF Contains(exporters, e) /\ "onDescriptorRegistered" \in Hooks[e]
                      THEN descriptors ELSE <<>>

\* Recording adds the newest position to the positions of its metric, and to no others.
LEMMA RecordingExtends ==
  ASSUME TypeOK, NEW m \in Metrics, log' = Append(log, m), NEW n \in Metrics
  PROVE  /\ Len(log) \in Nat /\ RecordedOf(n) \in SUBSET (1 .. Len(log))
         /\ RecordedOf(n)' = IF n = m THEN RecordedOf(n) \cup {Len(log) + 1} ELSE RecordedOf(n)
<1>1. log \in Seq(Metrics)
  BY DEF TypeOK
<1>2. Len(log) \in Nat /\ DOMAIN log = 1 .. Len(log)
  BY <1>1, LenProperties
<1>3. /\ DOMAIN log' = 1 .. Len(log) + 1 /\ log'[Len(log) + 1] = m
      /\ \A k \in 1 .. Len(log) : log'[k] = log[k]
  BY <1>1, <1>2, AppendProperties, LenProperties
<1> QED
  BY <1>2, <1>3 DEF RecordedOf

\* Every step keeps what exporters were told and what the windows hold.
LEMMA BookkeepingSteps ==
  ASSUME TypeOK, Announcing, WindowKeepsNewest, [Next]_vars
  PROVE  Announcing' /\ WindowKeepsNewest'
<1>t. /\ descriptors \in Seq(Metrics) /\ values \in [Metrics -> Seq(Nat)]
      /\ exporters \in Seq(Exporters) /\ log \in Seq(Metrics)
      /\ announced \in [Exporters -> Seq(Metrics)]
  BY DEF TypeOK
<1>d. /\ DOMAIN descriptors = 1 .. Len(descriptors) /\ Len(descriptors) \in Nat
      /\ DOMAIN exporters = 1 .. Len(exporters) /\ Len(exporters) \in Nat
      /\ DOMAIN log = 1 .. Len(log) /\ Len(log) \in Nat
  BY <1>t, LenProperties
<1>1. ASSUME NEW m \in Metrics, RegisterDescriptor(m)
      PROVE  Announcing' /\ WindowKeepsNewest'
  <2>1. /\ ~ Contains(descriptors, m) /\ descriptors' = Append(descriptors, m)
        /\ values' = [values EXCEPT ![m] = <<>>] /\ log' = log /\ exporters' = exporters
        /\ announced' = [e \in Exporters |->
             IF e \in With("onDescriptorRegistered") THEN Append(announced[e], m)
             ELSE announced[e]]
    BY <1>1 DEF RegisterDescriptor, Notified
  <2>2. ToSet(descriptors) \subseteq ToSet(descriptors')
    <3>1. /\ DOMAIN descriptors' = 1 .. Len(descriptors) + 1
          /\ \A i \in 1 .. Len(descriptors) : descriptors'[i] = descriptors[i]
      BY <1>t, <1>d, <2>1, AppendProperties, LenProperties
    <3> QED
      BY <1>d, <3>1 DEF ToSet
  <2>3. \A e \in Exporters :
          e \in With("onDescriptorRegistered")
            <=> Contains(exporters, e) /\ "onDescriptorRegistered" \in Hooks[e]
    BY <1>d DEF With, ToSet, Contains
  <2>4. Announcing'
    BY <2>1, <2>2, <2>3 DEF Announcing
  <2>5. RecordedOf(m) = {}
    BY <1>d, <2>1 DEF RecordedOf, Announcing, Contains, ToSet
  <2>6. KeepsNewest(<<>>, {})
    BY BoundsAssumption DEF KeepsNewest, ToSet
  <2>7. WindowKeepsNewest'
    BY <1>t, <2>1, <2>5, <2>6 DEF WindowKeepsNewest, RecordedOf
  <2> QED
    BY <2>4, <2>7
<1>2. ASSUME NEW e \in Exporters, RegisterExporter(e)
      PROVE  Announcing' /\ WindowKeepsNewest'
  <2>1. /\ ~ Contains(exporters, e) /\ exporters' = Append(exporters, e)
        /\ announced' = IF "onDescriptorRegistered" \in Hooks[e]
                        THEN [announced EXCEPT ![e] = descriptors] ELSE announced
        /\ UNCHANGED <<descriptors, values, log>>
    BY <1>2 DEF RegisterExporter, storeVars
  <2>2. \A d \in Exporters : Contains(exporters', d) <=> Contains(exporters, d) \/ d = e
    <3>1. /\ Len(exporters') = Len(exporters) + 1 /\ exporters'[Len(exporters) + 1] = e
          /\ \A i \in 1 .. Len(exporters) : exporters'[i] = exporters[i]
      BY <1>t, <2>1, AppendProperties
    <3> QED
      BY <1>d, <3>1 DEF Contains
  <2> QED
    BY <1>t, <2>1, <2>2 DEF Announcing, WindowKeepsNewest, RecordedOf
<1>3. ASSUME NEW m \in Metrics, RecordMetric(m)
      PROVE  Announcing' /\ WindowKeepsNewest'
  <2>1. /\ Contains(descriptors, m) /\ log' = Append(log, m)
        /\ values' = [values EXCEPT ![m] = Pushed(values[m], Len(log) + 1)]
        /\ UNCHANGED <<descriptors, exporters, announced>>
    BY <1>3 DEF RecordMetric
  <2>2. Announcing'
    <3>1. /\ DOMAIN log' = 1 .. Len(log) + 1 /\ log'[Len(log) + 1] = m
          /\ \A k \in 1 .. Len(log) : log'[k] = log[k]
      BY <1>t, <1>d, <2>1, AppendProperties, LenProperties
    <3>2. m \in ToSet(descriptors)
      BY <1>d, <2>1 DEF Contains, ToSet
    <3>3. \A k \in DOMAIN log' : log'[k] \in ToSet(descriptors')
      BY <1>d, <2>1, <3>1, <3>2 DEF Announcing
    <3> QED
      BY <2>1, <3>3 DEF Announcing
  <2>3. ASSUME NEW n \in Metrics PROVE KeepsNewest(values[n], RecordedOf(n))'
    <3>1. KeepsNewest(values[n], RecordedOf(n)) /\ values[n] \in Seq(Nat)
      BY <1>t DEF WindowKeepsNewest
    <3>2. CASE n = m
      <4>1. KeepsNewest(Pushed(values[m], Len(log) + 1), RecordedOf(m) \cup {Len(log) + 1})
        BY <2>1, <3>1, <3>2, PushedKeepsNewest, RecordingExtends
      <4>2. RecordedOf(n)' = RecordedOf(m) \cup {Len(log) + 1}
        BY <2>1, <3>2, RecordingExtends
      <4>3. values'[n] = Pushed(values[m], Len(log) + 1)
        BY <1>t, <2>1, <3>2
      <4> QED
        BY <4>1, <4>2, <4>3 DEF KeepsNewest
    <3>3. CASE n # m
      <4>1. RecordedOf(n)' = RecordedOf(n) /\ values'[n] = values[n]
        BY <1>t, <2>1, <3>3, RecordingExtends
      <4> QED
        BY <3>1, <4>1 DEF KeepsNewest
    <3> QED
      BY <3>2, <3>3
  <2> QED
    BY <2>2, <2>3 DEF WindowKeepsNewest
<1>4. ASSUME UNCHANGED <<storeVars, exporterVars>>
      PROVE  Announcing' /\ WindowKeepsNewest'
  BY <1>4 DEF Announcing, WindowKeepsNewest, RecordedOf, storeVars, exporterVars
<1>5. CASE UNCHANGED vars \/ CallHandler \/ HandlerReturns \/ RecordMetricReturns \/ Shutdown
           \/ ShutdownResolves \/ ShutdownRejects
  BY <1>4, <1>5 DEF vars, CallHandler, HandlerReturns, RecordMetricReturns, Shutdown,
                    ShutdownResolves, ShutdownRejects
<1>6. ASSUME NEW e \in Exporters, ShutdownSettles(e)
      PROVE  Announcing' /\ WindowKeepsNewest'
  BY <1>4, <1>6 DEF ShutdownSettles
<1>7. ASSUME NEW m \in Metrics, NEW h \in Handlers, On(m, h) \/ Unsubscribe(m, h)
      PROVE  Announcing' /\ WindowKeepsNewest'
  BY <1>4, <1>7 DEF On, Unsubscribe
<1> QED
  BY <1>1, <1>2, <1>3, <1>5, <1>6, <1>7 DEF Next

\* Whatever is recorded and registered while values are delivered, the registry keeps the
\* newest values of each metric in order, and every exporter has been told of each
\* descriptor once, in order.
THEOREM BookkeepingCorrect == Spec => []BookkeepingExact
<1>1. Init => Announcing /\ WindowKeepsNewest
  <2> SUFFICES ASSUME Init PROVE Announcing /\ WindowKeepsNewest
    OBVIOUS
  <2>1. DOMAIN log = {} /\ exporters = <<>> /\ Len(exporters) = 0
    BY EmptySeq DEF Init
  <2>2. Announcing
    BY <2>1 DEF Init, Announcing, Contains
  <2>3. \A m \in Metrics : values[m] = <<>> /\ RecordedOf(m) = {}
    BY <2>1 DEF Init, RecordedOf
  <2>4. KeepsNewest(<<>>, {})
    BY BoundsAssumption DEF KeepsNewest, ToSet
  <2> QED
    BY <2>2, <2>3, <2>4 DEF WindowKeepsNewest
<1>2. TypeOK /\ Announcing /\ WindowKeepsNewest /\ [Next]_vars => Announcing' /\ WindowKeepsNewest'
  BY BookkeepingSteps
<1>3. TypeOK /\ Announcing => AnnouncedOnce
  <2> SUFFICES ASSUME TypeOK, Announcing, NEW e \in ToSet(exporters)
               PROVE  announced[e] = IF "onDescriptorRegistered" \in Hooks[e] THEN descriptors ELSE <<>>
    BY DEF AnnouncedOnce
  <2>1. exporters \in Seq(Exporters)
    BY DEF TypeOK
  <2>2. e \in Exporters /\ Contains(exporters, e)
    BY <2>1, LenProperties, ElementOfSeq DEF ToSet, Contains
  <2> QED
    BY <2>2 DEF Announcing
<1> QED
  BY <1>1, <1>2, <1>3, TypeCorrect, PTL DEF Spec, BookkeepingExact

-----------------------------------------------------------------------------
(* Values pushed to exporters                                              *)

\* Every exporter that says it supports events has the method the interface asks of it.
EventHooksPresent == \A e \in EventBased : "onMetricRecorded" \in Hooks[e]

\* An exporter was registered when no more had been recorded than has been now.
RegisteredBefore == \A e \in Exporters : registeredAt[e] <= Len(log)

\* The consecutive numbers after a, n of them.
After(a, n) == [k \in 1 .. n |-> a + k]

\* Appending the next number leaves consecutive numbers.
LEMMA AppendNext ==
  ASSUME NEW a \in Nat, NEW n \in Nat
  PROVE  Append(After(a, n), a + n + 1) = After(a, n + 1)
<1>1. After(a, n) \in [1 .. n -> Nat] /\ After(a, n + 1) \in [1 .. n + 1 -> Nat]
  BY DEF After
<1>2. /\ After(a, n) \in Seq(Nat) /\ Len(After(a, n)) = n
      /\ After(a, n + 1) \in Seq(Nat) /\ Len(After(a, n + 1)) = n + 1
  BY <1>1, FunctionIsSequence
<1> DEFINE longer == Append(After(a, n), a + n + 1)
<1>3. /\ longer \in Seq(Nat) /\ Len(longer) = n + 1 /\ longer[n + 1] = a + n + 1
      /\ \A i \in 1 .. n : longer[i] = After(a, n)[i]
  BY <1>2, AppendProperties
<1> HIDE DEF longer
<1>4. ASSUME NEW i \in 1 .. n + 1 PROVE longer[i] = After(a, n + 1)[i]
  <2>1. CASE i = n + 1
    BY <1>3, <2>1 DEF After
  <2>2. CASE i # n + 1
    <3>1. i \in 1 .. n
      BY <2>2
    <3> QED
      BY <1>3, <3>1 DEF After
  <2> QED
    BY <2>1, <2>2
<1>5. longer = After(a, n + 1)
  BY <1>2, <1>3, <1>4, SeqEqual
<1> QED
  BY <1>5 DEF longer

\* What exporters have received, in the form of After.
Receiving ==
  /\ RegisteredBefore
  /\ \A e \in Exporters :
       received[e] = IF Contains(exporters, e) /\ e \in EventBased
                     THEN After(registeredAt[e], Len(log) - registeredAt[e]) ELSE <<>>

\* Every step gives the exporters what they should receive.
LEMMA ReceivingSteps ==
  ASSUME EventHooksPresent, TypeOK, Receiving, [Next]_vars
  PROVE  Receiving'
<1>t. /\ exporters \in Seq(Exporters) /\ log \in Seq(Metrics)
      /\ received \in [Exporters -> Seq(Nat)] /\ registeredAt \in [Exporters -> Nat]
  BY DEF TypeOK
<1>n. Len(log) \in Nat /\ Len(exporters) \in Nat
  BY <1>t, LenProperties
<1>1. ASSUME NEW m \in Metrics, RecordMetric(m) PROVE Receiving'
  <2>1. /\ log' = Append(log, m) /\ UNCHANGED <<exporters, registeredAt>>
        /\ received' = [e \in Exporters |->
             IF e \in Pushes THEN Append(received[e], Len(log) + 1) ELSE received[e]]
    BY <1>1 DEF RecordMetric
  <2>2. Len(log') = Len(log) + 1
    BY <1>t, <2>1, AppendProperties
  <2>3. \A e \in Exporters : e \in Pushes <=> Contains(exporters, e) /\ e \in EventBased
    <3>1. DOMAIN exporters = 1 .. Len(exporters)
      BY <1>t, LenProperties
    <3> QED
      BY <3>1 DEF EventHooksPresent, Pushes, Notified, With, ToSet, Contains
  <2>4. ASSUME NEW e \in Exporters, Contains(exporters, e) /\ e \in EventBased
        PROVE  received'[e] = After(registeredAt[e], Len(log') - registeredAt[e])
    <3> DEFINE a == registeredAt[e]
               n == Len(log) - registeredAt[e]
    <3>1. a \in Nat /\ n \in Nat
      BY <1>t, <1>n DEF Receiving, RegisteredBefore
    <3>2. received[e] = After(a, n)
      BY <2>4 DEF Receiving
    <3>3. received'[e] = Append(After(a, n), Len(log) + 1)
      BY <2>1, <2>3, <2>4, <3>2
    <3>4. Len(log) + 1 = a + n + 1 /\ Len(log') - registeredAt[e] = n + 1
      BY <1>n, <2>2, <3>1
    <3> HIDE DEF a, n
    <3>5. Append(After(a, n), a + n + 1) = After(a, n + 1)
      BY <3>1, AppendNext
    <3>6. a = registeredAt[e]
      BY DEF a
    <3> QED
      BY <3>3, <3>4, <3>5, <3>6
  <2>5. RegisteredBefore'
    BY <1>t, <1>n, <2>1, <2>2 DEF Receiving, RegisteredBefore
  <2>6. ASSUME NEW e \in Exporters, ~ (Contains(exporters, e) /\ e \in EventBased)
        PROVE  received'[e] = <<>>
    BY <2>1, <2>3, <2>6 DEF Receiving
  <2> QED
    BY <2>1, <2>4, <2>5, <2>6 DEF Receiving
<1>2. ASSUME NEW e \in Exporters, RegisterExporter(e) PROVE Receiving'
  <2>1. /\ ~ Contains(exporters, e) /\ exporters' = Append(exporters, e)
        /\ registeredAt' = [registeredAt EXCEPT ![e] = Len(log)]
        /\ received' = received /\ log' = log
    BY <1>2 DEF RegisterExporter, storeVars
  <2>2. \A d \in Exporters : Contains(exporters', d) <=> Contains(exporters, d) \/ d = e
    <3>1. /\ Len(exporters') = Len(exporters) + 1 /\ exporters'[Len(exporters) + 1] = e
          /\ \A i \in 1 .. Len(exporters) : exporters'[i] = exporters[i]
      BY <1>t, <2>1, AppendProperties
    <3> QED
      BY <1>n, <3>1 DEF Contains
  <2>3. \A a : After(a, Len(log) - Len(log)) = <<>>
    BY <1>n DEF After
  <2>4. registeredAt'[e] = Len(log) /\ received[e] = <<>>
    BY <1>t, <2>1 DEF Receiving
  <2>5. \A d \in Exporters : d # e => registeredAt'[d] = registeredAt[d]
    BY <1>t, <2>1
  <2>6. RegisteredBefore'
    BY <1>n, <2>1, <2>4, <2>5 DEF Receiving, RegisteredBefore
  <2> QED
    BY <2>1, <2>2, <2>3, <2>4, <2>5, <2>6 DEF Receiving
<1>3. ASSUME UNCHANGED <<log, exporters, received, registeredAt>> PROVE Receiving'
  BY <1>3 DEF Receiving, RegisteredBefore
<1>4. CASE UNCHANGED vars \/ CallHandler \/ HandlerReturns \/ RecordMetricReturns \/ Shutdown
           \/ ShutdownResolves \/ ShutdownRejects
  BY <1>3, <1>4 DEF vars, CallHandler, HandlerReturns, RecordMetricReturns, Shutdown,
                    ShutdownResolves, ShutdownRejects, storeVars, exporterVars
<1>5. ASSUME NEW e \in Exporters, ShutdownSettles(e) PROVE Receiving'
  BY <1>3, <1>5 DEF ShutdownSettles, storeVars, exporterVars
<1>6. ASSUME NEW m \in Metrics, RegisterDescriptor(m) PROVE Receiving'
  BY <1>3, <1>6 DEF RegisterDescriptor
<1>7. ASSUME NEW m \in Metrics, NEW h \in Handlers, On(m, h) \/ Unsubscribe(m, h) PROVE Receiving'
  BY <1>3, <1>7 DEF On, Unsubscribe, storeVars, exporterVars
<1> QED
  BY <1>1, <1>2, <1>4, <1>5, <1>6, <1>7 DEF Next

\* If the exporters have the method the interface names, each one that supports events is
\* given every value recorded after its registration, once and in order, whichever exporter
\* throws and however listeners record in turn.
THEOREM ReceivesCorrect ==
  ASSUME EventHooksPresent
  PROVE  Spec => []ReceivesEach
<1>1. Init => Receiving
  <2> SUFFICES ASSUME Init PROVE Receiving
    OBVIOUS
  <2>1. Len(exporters) = 0 /\ Len(log) = 0
    BY EmptySeq DEF Init
  <2> QED
    BY <2>1 DEF Init, Receiving, RegisteredBefore, Contains
<1>2. TypeOK /\ Receiving /\ [Next]_vars => Receiving'
  BY ReceivingSteps
<1>3. Receiving => ReceivesEach
  BY DEF Receiving, ReceivesEach, After
<1> QED
  BY <1>1, <1>2, <1>3, TypeCorrect, PTL DEF Spec

-----------------------------------------------------------------------------
(* Shutdown                                                                *)

\* Before the shutdown every exporter is up; afterwards one with a hook is not, if one
\* registered later is not; an exporter that is not registered is up.  When the shutdown has
\* resolved, no exporter is closing and none has rejected.
Closing ==
  /\ shutdown = "none" => \A e \in Exporters : status[e] = "up"
  /\ \A e \in Exporters : status[e] # "up" => Contains(exporters, e)
  /\ shutdown = "resolved" => \A e \in Exporters : status[e] \notin {"closing", "rejected"}
  /\ shutdown # "none" =>
       \A i, j \in DOMAIN exporters :
         i < j /\ status[exporters[j]] # "up" /\ "shutdown" \in Hooks[exporters[i]]
           => status[exporters[i]] # "up"

\* Every step keeps the order in which exporters are shut down.
LEMMA ClosingSteps ==
  ASSUME TypeOK, Closing, [Next]_vars
  PROVE  Closing'
<1>t. /\ exporters \in Seq(Exporters)
      /\ status \in [Exporters -> {"up", "closing", "closed", "failed", "rejected"}]
  BY DEF TypeOK
<1>d. DOMAIN exporters = 1 .. Len(exporters) /\ Len(exporters) \in Nat
  BY <1>t, LenProperties
<1>m. \A i \in DOMAIN exporters : exporters[i] \in Exporters
  BY <1>t, <1>d, ElementOfSeq
<1>1. ASSUME NEW e \in Exporters, RegisterExporter(e) PROVE Closing'
  <2>1. /\ ~ Contains(exporters, e) /\ exporters' = Append(exporters, e)
        /\ UNCHANGED <<shutdown, status>>
    BY <1>1 DEF RegisterExporter, closeVars
  <2>2. status[e] = "up"
    BY <2>1 DEF Closing
  <2>3. /\ exporters' \in Seq(Exporters) /\ Len(exporters') = Len(exporters) + 1
        /\ exporters'[Len(exporters) + 1] = e
        /\ \A i \in 1 .. Len(exporters) : exporters'[i] = exporters[i]
    BY <1>t, <2>1, AppendProperties
  <2>4. DOMAIN exporters' = 1 .. Len(exporters) + 1
    BY <2>3, LenProperties
  <2>5. \A d \in Exporters : Contains(exporters, d) => Contains(exporters', d)
    BY <1>d, <2>3 DEF Contains
  <2>6. ASSUME shutdown # "none", NEW i \in DOMAIN exporters', NEW j \in DOMAIN exporters',
               i < j, status[exporters'[j]] # "up", "shutdown" \in Hooks[exporters'[i]]
        PROVE  status[exporters'[i]] # "up"
    <3>1. j # Len(exporters) + 1
      BY <2>2, <2>3, <2>6
    <3>2. i \in 1 .. Len(exporters) /\ j \in 1 .. Len(exporters)
      BY <1>d, <2>4, <2>6, <3>1
    <3> QED
      BY <1>d, <2>3, <2>6, <3>2 DEF Closing
  <2> QED
    BY <2>1, <2>5, <2>6 DEF Closing
<1>2. ASSUME Shutdown PROVE Closing'
  <2>1. /\ shutdown' = "pending" /\ exporters' = exporters
        /\ \A e \in Exporters : status'[e] = "up" <=> e \notin With("shutdown")
    BY <1>2 DEF Shutdown, exporterVars, Notified
  <2>2. \A e \in Exporters :
          e \in With("shutdown") <=> Contains(exporters, e) /\ "shutdown" \in Hooks[e]
    BY <1>d DEF With, ToSet, Contains
  <2>3. \A i \in DOMAIN exporters : Contains(exporters, exporters[i])
    BY <1>d DEF Contains
  <2> QED
    BY <1>m, <2>1, <2>2, <2>3 DEF Closing
<1>3. ASSUME NEW e \in Exporters, ShutdownSettles(e) PROVE Closing'
  <2>1. /\ status[e] = "closing" /\ UNCHANGED <<shutdown, exporters>>
        /\ \E result \in {"closed", "rejected"} : status' = [status EXCEPT ![e] = result]
    BY <1>3 DEF ShutdownSettles, exporterVars
  <2>2. \A d \in Exporters : status'[d] = "up" <=> status[d] = "up"
    BY <1>t, <2>1
  <2>3. shutdown \notin {"none", "resolved"}
    BY <2>1 DEF Closing
  <2> QED
    BY <1>m, <2>1, <2>2, <2>3 DEF Closing
<1>4. CASE ShutdownResolves \/ ShutdownRejects
  <2>1. /\ UNCHANGED <<exporters, status>> /\ shutdown # "none"
        /\ \/ /\ shutdown' = "resolved"
              /\ \A e \in Exporters : status[e] # "rejected" /\ status[e] # "closing"
           \/ shutdown' = "rejected"
    BY <1>4 DEF ShutdownResolves, ShutdownRejects, Rejected, exporterVars
  <2> QED
    BY <2>1 DEF Closing
<1>5. ASSUME UNCHANGED <<exporters, closeVars>> PROVE Closing'
  BY <1>5 DEF Closing, closeVars
<1>6. CASE UNCHANGED vars \/ CallHandler \/ HandlerReturns \/ RecordMetricReturns
  BY <1>5, <1>6 DEF vars, CallHandler, HandlerReturns, RecordMetricReturns, exporterVars
<1>7. ASSUME NEW m \in Metrics, RegisterDescriptor(m) \/ RecordMetric(m) PROVE Closing'
  BY <1>5, <1>7 DEF RegisterDescriptor, RecordMetric
<1>8. ASSUME NEW m \in Metrics, NEW h \in Handlers, On(m, h) \/ Unsubscribe(m, h) PROVE Closing'
  BY <1>5, <1>8 DEF On, Unsubscribe, exporterVars
<1> QED
  BY <1>1, <1>2, <1>3, <1>4, <1>6, <1>7, <1>8 DEF Next

\* A shutdown that has resolved has waited for every exporter that was there, whatever they
\* throw and whoever registers meanwhile; and none with a hook is passed over.
THEOREM ShutdownCorrect == Spec => []ShutdownCompletes
<1>1. Init => Closing
  BY DEF Init, Closing
<1>2. TypeOK /\ Closing /\ [Next]_vars => Closing'
  BY ClosingSteps
<1>3. TypeOK /\ Closing => ShutdownCompletes
  BY DEF TypeOK, Closing, ShutdownCompletes
<1> QED
  BY <1>1, <1>2, <1>3, TypeCorrect, PTL DEF Spec

-----------------------------------------------------------------------------
(* Delivery                                                                *)

\* A call from whose array nobody was removed has called the first of the listeners ls, in
\* order, and goes on with the next one.
InStep(c, ls) ==
  c.gone = {} =>
    /\ c.next = Len(c.called) + 1
    /\ Len(c.called) <= Len(ls)
    /\ \A i \in 1 .. Len(c.called) : c.called[i] = ls[i]

\* Every call in progress is in step with the listeners of its metric, as they are now.
Delivering == \A k \in DOMAIN calls : InStep(calls[k], listeners[calls[k].metric])

\* A listener more at the end leaves a call in step.
LEMMA SubscribedLater ==
  ASSUME NEW ls \in Seq(Handlers), NEW h \in Handlers, NEW c \in CallRecords, InStep(c, ls)
  PROVE  InStep(c, Append(ls, h))
<1>1. /\ Len(ls) \in Nat /\ Len(Append(ls, h)) = Len(ls) + 1
      /\ \A i \in 1 .. Len(ls) : Append(ls, h)[i] = ls[i]
  BY AppendProperties, LenProperties
<1>2. Len(c.called) \in Nat
  BY LenProperties DEF CallRecords
<1> QED
  BY <1>1, <1>2 DEF InStep

\* Calling the next listener leaves a call in step.
LEMMA CalledNext ==
  ASSUME NEW c \in CallRecords, NEW ls \in Seq(Handlers), c.next \in 1 .. Len(ls), InStep(c, ls)
  PROVE  InStep([c EXCEPT !.next = @ + 1, !.running = TRUE, !.called = Append(@, ls[c.next])], ls)
<1> DEFINE d == [c EXCEPT !.next = @ + 1, !.running = TRUE, !.called = Append(@, ls[c.next])]
<1>1. c.called \in Seq(Handlers) /\ ls[c.next] \in Handlers /\ c.next \in Nat
  BY ElementOfSeq DEF CallRecords
<1>2. d.gone = c.gone /\ d.next = c.next + 1 /\ d.called = Append(c.called, ls[c.next])
  BY DEF CallRecords
<1>3. /\ Len(c.called) \in Nat /\ Len(d.called) = Len(c.called) + 1
      /\ \A i \in 1 .. Len(c.called) : d.called[i] = c.called[i]
      /\ d.called[Len(c.called) + 1] = ls[c.next]
  BY <1>1, <1>2, AppendProperties, LenProperties
<1> HIDE DEF d
<1>4. Len(ls) \in Nat
  BY LenProperties
<1>5. InStep(d, ls)
  <2> SUFFICES ASSUME c.gone = {}
               PROVE  /\ d.next = Len(d.called) + 1
                      /\ Len(d.called) <= Len(ls)
                      /\ \A i \in 1 .. Len(d.called) : d.called[i] = ls[i]
    BY <1>2 DEF InStep
  <2>1. c.next = Len(c.called) + 1 /\ \A i \in 1 .. Len(c.called) : c.called[i] = ls[i]
    BY DEF InStep
  <2>2. ASSUME NEW i \in 1 .. Len(d.called) PROVE d.called[i] = ls[i]
    <3>1. CASE i = Len(c.called) + 1
      BY <1>3, <2>1, <3>1
    <3>2. CASE i # Len(c.called) + 1
      <4>1. i \in 1 .. Len(c.called)
        BY <1>3, <3>2
      <4> QED
        BY <1>3, <2>1, <4>1
    <3> QED
      BY <3>1, <3>2
  <2> QED
    BY <1>2, <1>3, <1>4, <2>1, <2>2
<1> QED
  BY <1>5 DEF d

\* Every step leaves the calls in progress in step, or removes a handler from their array.
LEMMA DeliverySteps ==
  ASSUME TypeOK, Delivering, [Next]_vars
  PROVE  Delivering'
<1>t. calls \in Seq(CallRecords) /\ listeners \in [Metrics -> Seq(Handlers)]
  BY DEF TypeOK
<1>d. DOMAIN calls = 1 .. Len(calls) /\ Len(calls) \in Nat
  BY <1>t, LenProperties
<1>m. \A k \in DOMAIN calls : calls[k] \in CallRecords /\ calls[k].metric \in Metrics
  <2>1. \A k \in DOMAIN calls : calls[k] \in CallRecords
    BY <1>t, <1>d, ElementOfSeq
  <2>2. \A c \in CallRecords : c.metric \in Metrics
    BY DEF CallRecords
  <2> QED
    BY <2>1, <2>2
<1>1. ASSUME NEW m \in Metrics, RecordMetric(m) PROVE Delivering'
  <2>1. calls' = Append(calls, NewCall(m)) /\ listeners' = listeners
    BY <1>1 DEF RecordMetric
  <2>2. /\ \A k \in 1 .. Len(calls) : calls'[k] = calls[k]
        /\ calls'[Len(calls) + 1] = NewCall(m)
        /\ DOMAIN calls' = 1 .. Len(calls) + 1
    BY <1>t, <1>d, <2>1
  <2>3. NewCall(m).metric = m /\ InStep(NewCall(m), listeners[m])
    <3>1. listeners[m] \in Seq(Handlers) /\ Len(<<>>) = 0
      BY <1>t, EmptySeq
    <3>2. Len(listeners[m]) \in Nat
      BY <3>1, LenProperties
    <3> QED
      BY <3>1, <3>2 DEF NewCall, InStep
  <2>4. ASSUME NEW k \in DOMAIN calls' PROVE InStep(calls'[k], listeners[calls'[k].metric])
    <3>1. CASE k = Len(calls) + 1
      BY <2>2, <2>3, <3>1
    <3>2. CASE k # Len(calls) + 1
      <4>1. k \in DOMAIN calls
        BY <1>d, <2>2, <3>2
      <4> QED
        BY <1>d, <2>2, <4>1 DEF Delivering
    <3> QED
      BY <3>1, <3>2
  <2> QED
    BY <2>1, <2>4 DEF Delivering, InStep
<1>2. ASSUME CallHandler PROVE Delivering'
  <2> DEFINE ls == listeners[Call.metric]
             new == [Call EXCEPT !.next = @ + 1, !.running = TRUE, !.called = Append(@, ls[Call.next])]
  <2>1. calls # <<>> /\ calls' = [calls EXCEPT ![Len(calls)] = new] /\ listeners' = listeners
    BY <1>2 DEF CallHandler
  <2>2. Call = calls[Len(calls)] /\ Call \in CallRecords /\ Len(calls) \in DOMAIN calls
    BY <2>1, InnermostCall
  <2>3. InStep(Call, ls) /\ ls \in Seq(Handlers) /\ Call.next \in 1 .. Len(ls)
    BY <1>2, <2>2, HandlerCalled DEF Delivering
  <2>4. InStep(new, ls)
    BY <2>2, <2>3, CalledNext
  <2>5. new.metric = Call.metric
    BY <2>2 DEF CallRecords
  <2> HIDE DEF new
  <2>6. ASSUME NEW k \in DOMAIN calls' PROVE InStep(calls'[k], listeners[calls'[k].metric])
    <3>1. CASE k = Len(calls)
      BY <2>1, <2>2, <2>4, <2>5, <3>1
    <3>2. CASE k # Len(calls)
      BY <2>1, <3>2 DEF Delivering
    <3> QED
      BY <3>1, <3>2
  <2> QED
    BY <2>1, <2>6 DEF Delivering, InStep
<1>3. ASSUME HandlerReturns PROVE Delivering'
  <2>1. /\ calls # <<>> /\ listeners' = listeners
        /\ calls' = [calls EXCEPT ![Len(calls)] = [calls[Len(calls)] EXCEPT !.running = FALSE]]
    BY <1>3 DEF HandlerReturns
  <2>2. ASSUME NEW k \in DOMAIN calls'
        PROVE  /\ k \in DOMAIN calls /\ calls'[k].metric = calls[k].metric
               /\ calls'[k].gone = calls[k].gone /\ calls'[k].next = calls[k].next
               /\ calls'[k].called = calls[k].called
    <3>1. k \in DOMAIN calls /\ calls[k] \in CallRecords
      BY <1>m, <2>1
    <3>2. calls'[k] \in {calls[k], [calls[k] EXCEPT !.running = FALSE]}
      BY <2>1, <3>1
    <3> QED
      BY <3>1, <3>2 DEF CallRecords
  <2> QED
    BY <2>1, <2>2 DEF Delivering, InStep
<1>4. ASSUME RecordMetricReturns PROVE Delivering'
  <2>1. /\ calls # <<>> /\ listeners' = listeners /\ calls' = SubSeq(calls, 1, Len(calls) - 1)
    BY <1>4 DEF RecordMetricReturns, Front
  <2>2. \A k \in DOMAIN calls' : k \in DOMAIN calls /\ calls'[k] = calls[k]
    <3>1. Len(calls) \in Nat \ {0}
      BY <2>1, InnermostCall
    <3>2. calls' \in Seq(CallRecords) /\ Len(calls') = Len(calls) - 1
          /\ \A k \in 1 .. Len(calls) - 1 : calls'[k] = calls[k]
      <4> DEFINE n == Len(calls) - 1
      <4>1. n \in Nat /\ \A k \in 1 .. n : calls[k] \in CallRecords
        BY <1>d, <1>m, <3>1
      <4> HIDE DEF n
      <4>2. /\ SubSeq(calls, 1, n) \in Seq(CallRecords)
            /\ Len(SubSeq(calls, 1, n)) = IF 1 <= n THEN n - 1 + 1 ELSE 0
            /\ \A k \in 1 .. n - 1 + 1 : SubSeq(calls, 1, n)[k] = calls[1 + k - 1]
        BY <4>1, SubSeqProperties
      <4>3. Len(SubSeq(calls, 1, n)) = n /\ \A k \in 1 .. n : SubSeq(calls, 1, n)[k] = calls[k]
        BY <4>1, <4>2
      <4> QED
        BY <2>1, <4>2, <4>3 DEF n
    <3>3. DOMAIN calls' = 1 .. Len(calls) - 1
      BY <3>2, LenProperties
    <3> QED
      BY <1>d, <3>2, <3>3
  <2> QED
    BY <2>1, <2>2 DEF Delivering, InStep
<1>5. ASSUME NEW m \in Metrics, NEW h \in Handlers, On(m, h) PROVE Delivering'
  <2>1. calls' = calls /\ listeners' = [listeners EXCEPT ![m] = Append(listeners[m], h)]
    BY <1>5 DEF On
  <2>2. ASSUME NEW k \in DOMAIN calls PROVE InStep(calls[k], listeners'[calls[k].metric])
    <3>1. calls[k].metric \in Metrics /\ InStep(calls[k], listeners[calls[k].metric])
      BY <1>m DEF Delivering
    <3>2. CASE calls[k].metric = m
      <4>1. listeners'[calls[k].metric] = Append(listeners[m], h) /\ listeners[m] \in Seq(Handlers)
        BY <1>t, <2>1, <3>2
      <4>2. InStep(calls[k], Append(listeners[m], h))
        BY <1>m, <3>1, <3>2, <4>1, SubscribedLater
      <4> QED
        BY <4>1, <4>2
    <3>3. CASE calls[k].metric # m
      BY <1>t, <2>1, <3>1, <3>3
    <3> QED
      BY <3>2, <3>3
  <2> QED
    BY <2>1, <2>2 DEF Delivering, InStep
<1>6. ASSUME NEW m \in Metrics, NEW h \in Handlers, Unsubscribe(m, h) PROVE Delivering'
  <2>1. /\ listeners' = [listeners EXCEPT ![m] = RemoveFirst(listeners[m], h)]
        /\ calls' = [k \in DOMAIN calls |->
             IF calls[k].metric = m THEN [calls[k] EXCEPT !.gone = @ \cup {h}] ELSE calls[k]]
    BY <1>6 DEF Unsubscribe
  <2>2. ASSUME NEW k \in DOMAIN calls' PROVE InStep(calls'[k], listeners'[calls'[k].metric])
    <3>1. k \in DOMAIN calls /\ calls[k] \in CallRecords /\ calls[k].metric \in Metrics
      BY <1>m, <2>1
    <3>2. CASE calls[k].metric = m
      <4>1. calls'[k] = [calls[k] EXCEPT !.gone = calls[k].gone \cup {h}]
        BY <2>1, <3>1, <3>2
      <4>2. calls'[k].gone = calls[k].gone \cup {h}
        BY <3>1, <4>1 DEF CallRecords
      <4> QED
        BY <4>2 DEF InStep
    <3>3. CASE calls[k].metric # m
      <4>1. calls'[k] = calls[k] /\ listeners'[calls[k].metric] = listeners[calls[k].metric]
        BY <1>t, <2>1, <3>1, <3>3
      <4> QED
        BY <3>1, <4>1 DEF Delivering
    <3> QED
      BY <3>2, <3>3
  <2> QED
    BY <2>2 DEF Delivering, InStep
<1>7. ASSUME UNCHANGED <<calls, listeners>> PROVE Delivering'
  BY <1>7 DEF Delivering, InStep
<1>8. CASE UNCHANGED vars \/ Shutdown \/ ShutdownResolves \/ ShutdownRejects
  BY <1>7, <1>8 DEF vars, Shutdown, ShutdownResolves, ShutdownRejects
<1>9. ASSUME NEW e \in Exporters, RegisterExporter(e) \/ ShutdownSettles(e) PROVE Delivering'
  BY <1>7, <1>9 DEF RegisterExporter, ShutdownSettles
<1>10. ASSUME NEW m \in Metrics, RegisterDescriptor(m) PROVE Delivering'
  BY <1>7, <1>10 DEF RegisterDescriptor
<1> QED
  BY <1>1, <1>2, <1>3, <1>4, <1>5, <1>6, <1>8, <1>9, <1>10 DEF Next

\* However deep the recordings of listeners nest, and whoever subscribes in the middle of
\* them, a value reaches every listener once and in order, unless one was unsubscribed.
THEOREM DeliveryCorrect == Spec => []DeliveredOnce
<1>1. Init => Delivering
  BY DEF Init, Delivering
<1>2. TypeOK /\ Delivering /\ [Next]_vars => Delivering'
  BY DeliverySteps
<1>3. TypeOK /\ Delivering => DeliveredOnce
  <2> SUFFICES ASSUME TypeOK, Delivering, NEW k \in DOMAIN calls,
                      Ended(calls[k]), calls[k].gone = {}
               PROVE  calls[k].called = listeners[calls[k].metric]
    BY DEF DeliveredOnce
  <2>1. calls \in Seq(CallRecords) /\ DOMAIN calls = 1 .. Len(calls)
    BY LenProperties DEF TypeOK
  <2>2. calls[k] \in CallRecords
    BY <2>1, ElementOfSeq
  <2>3. calls[k].called \in Seq(Handlers) /\ listeners[calls[k].metric] \in Seq(Handlers)
    BY <2>2 DEF CallRecords, TypeOK
  <2>4. /\ calls[k].next = Len(calls[k].called) + 1
        /\ Len(calls[k].called) <= Len(listeners[calls[k].metric])
        /\ \A i \in 1 .. Len(calls[k].called) : calls[k].called[i] = listeners[calls[k].metric][i]
    BY DEF Delivering, InStep
  <2>5. Len(calls[k].called) \in Nat /\ Len(listeners[calls[k].metric]) \in Nat
    BY <2>3, LenProperties
  <2>6. Len(calls[k].called) = Len(listeners[calls[k].metric])
    BY <2>4, <2>5 DEF Ended
  <2> QED
    BY <2>3, <2>4, <2>6, SeqEqual
<1> QED
  BY <1>1, <1>2, <1>3, TypeCorrect, PTL DEF Spec

-----------------------------------------------------------------------------
(* MetricsRegistryService: what is exposed                                 *)

\* What CountAfter counts is a finite number, and an array that becomes longer adds what
\* is at its end.
LEMMA CountAfterAppend ==
  ASSUME NEW S, NEW s \in Seq(S), NEW e \in S, NEW p \in 0 .. Len(s), NEW these
  PROVE  /\ CountAfter(p, s, these) \in Nat
         /\ CountAfter(p, Append(s, e), these) = CountAfter(p, s, these) + (IF e \in these THEN 1 ELSE 0)
<1> DEFINE n == Len(s)
           t == Append(s, e)
           old == {i \in p + 1 .. n : s[i] \in these}
           new == {i \in p + 1 .. n + 1 : t[i] \in these}
<1>1. n \in Nat /\ p \in Nat /\ p <= n
  BY LenProperties
<1>2. Len(t) = n + 1 /\ (\A i \in 1 .. n : t[i] = s[i]) /\ t[n + 1] = e
  BY AppendProperties
<1>3. IsFiniteSet(old) /\ Cardinality(old) \in Nat
  <2>1. IsFiniteSet(p + 1 .. n)
    BY <1>1, FS_Interval
  <2>2. old \in SUBSET (p + 1 .. n)
    OBVIOUS
  <2> QED
    BY <2>1, <2>2, FS_Subset, FS_CardinalityType
<1> HIDE DEF n, t
<1>4. new = IF e \in these THEN old \cup {n + 1} ELSE old
  BY <1>1, <1>2
<1>5. n + 1 \notin old
  BY <1>1
<1>6. CountAfter(p, s, these) = Cardinality(old)
  BY DEF CountAfter, n
<1>7. CountAfter(p, t, these) = Cardinality(new)
  BY <1>2 DEF CountAfter
<1> HIDE DEF old, new
<1>8. Cardinality(new) = Cardinality(old) + (IF e \in these THEN 1 ELSE 0)
  <2>1. Cardinality(old \cup {n + 1}) = Cardinality(old) + 1
    BY <1>3, <1>5, FS_AddElement
  <2> QED
    BY <1>3, <1>4, <2>1
<1> QED
  BY <1>3, <1>6, <1>7, <1>8 DEF t

\* Nothing comes after the end.
LEMMA CountAfterEnd ==
  ASSUME NEW S, NEW s \in Seq(S), NEW these
  PROVE  CountAfter(Len(s), s, these) = 0
<1>1. {i \in Len(s) + 1 .. Len(s) : s[i] \in these} = {}
  BY LenProperties
<1> QED
  BY <1>1, FS_EmptySet DEF CountAfter

\* The greatest member of a set of numbers that has a bound.
LEMMA MaxIs ==
  ASSUME NEW T, T \subseteq Int, NEW m \in T, \A y \in T : m >= y
  PROVE  Max(T) = m
<1>1. Max(T) \in T /\ \A y \in T : Max(T) >= y
  BY DEF Max
<1>2. Max(T) >= m /\ m >= Max(T)
  BY <1>1
<1>3. \A a, b \in Int : a >= b /\ b >= a => a = b
  OBVIOUS
<1>4. Max(T) \in Int /\ m \in Int
  BY <1>1
<1> QED
  BY <1>2, <1>3, <1>4

\* The least member of a set of numbers that has a bound.
LEMMA MinIs ==
  ASSUME NEW T, T \subseteq Int, NEW m \in T, \A y \in T : m <= y
  PROVE  Min(T) = m
<1>1. Min(T) \in T /\ \A y \in T : Min(T) <= y
  BY DEF Min
<1>2. Min(T) <= m /\ m <= Min(T)
  BY <1>1
<1>3. \A a, b \in Int : a <= b /\ b <= a => a = b
  OBVIOUS
<1>4. Min(T) \in Int /\ m \in Int
  BY <1>1
<1> QED
  BY <1>2, <1>3, <1>4

\* There is a last clear, or none: then the position is 0.
LEMMA LastClear ==
  ASSUME NEW n \in Nat, NEW C, C \subseteq 1 .. n
  PROVE  \E m \in {0} \cup C : (\A y \in {0} \cup C : m >= y) /\ Max({0} \cup C) = m
<1> DEFINE T == {n - c : c \in {0} \cup C}
<1>1. T \subseteq Nat /\ T # {}
  OBVIOUS
<1>2. PICK x \in T : \A y \in T : x <= y
  BY <1>1, Least
<1>3. PICK m \in {0} \cup C : x = n - m
  BY <1>2
<1>4. \A y \in {0} \cup C : m >= y
  <2> TAKE y \in {0} \cup C
  <2>1. n - y \in T
    OBVIOUS
  <2>2. n - m <= n - y
    BY <1>2, <1>3, <2>1
  <2>3. m \in Nat /\ y \in Nat
    OBVIOUS
  <2> QED
    BY <2>2, <2>3
<1>5. {0} \cup C \subseteq Int
  OBVIOUS
<1> QED
  BY <1>4, <1>5, MaxIs

Whats == Kinds \cup {"http", "create", "build", "factory", "clear"}
Event == [what : Whats, name : Names \cup {"none"}]

\* The array since the last clear becomes longer with every event but another clear.
LEMMA SinceAppend ==
  ASSUME NEW s \in Seq(Event), NEW e \in Event
  PROVE  /\ SinceClear(s) \in Seq(Event)
         /\ SinceClear(Append(s, e)) = IF e.what = "clear" THEN <<>> ELSE Append(SinceClear(s), e)
<1> DEFINE n == Len(s)
           t == Append(s, e)
           C == {i \in 1 .. n : s[i].what = "clear"}
           D == {i \in 1 .. n + 1 : t[i].what = "clear"}
<1>1. n \in Nat
  BY LenProperties
<1>2. t \in Seq(Event) /\ Len(t) = n + 1 /\ (\A i \in 1 .. n : t[i] = s[i]) /\ t[n + 1] = e
  BY AppendProperties
<1>3. DOMAIN s = 1 .. n /\ DOMAIN t = 1 .. n + 1
  BY <1>2, LenProperties
<1>4. \A i \in 1 .. n : s[i] \in Event
  BY ElementOfSeq
<1>5. \A i \in 1 .. n + 1 : t[i] \in Event
  BY <1>2, ElementOfSeq
<1>6. SinceClear(s) = SubSeq(s, Max({0} \cup C) + 1, n)
  BY <1>3 DEF SinceClear
<1>7. SinceClear(t) = SubSeq(t, Max({0} \cup D) + 1, n + 1)
  BY <1>2, <1>3 DEF SinceClear
<1> HIDE DEF t, n
<1>8. C \subseteq 1 .. n /\ D = IF e.what = "clear" THEN C \cup {n + 1} ELSE C
  <2>1. 1 .. n + 1 = (1 .. n) \cup {n + 1}
    BY <1>1
  <2>2. n + 1 \notin 1 .. n
    BY <1>1
  <2>3. D = {i \in 1 .. n : t[i].what = "clear"} \cup {i \in {n + 1} : t[i].what = "clear"}
    BY <2>1
  <2>4. {i \in 1 .. n : t[i].what = "clear"} = C
    BY <1>2
  <2> QED
    BY <1>2, <2>3, <2>4
<1>9. PICK m \in {0} \cup C : (\A y \in {0} \cup C : m >= y) /\ Max({0} \cup C) = m
  BY <1>1, <1>8, LastClear
<1>10. m \in 0 .. n
  BY <1>1
<1> HIDE DEF C, D
<1>11. /\ SubSeq(s, m + 1, n) \in Seq(Event)
       /\ Len(SubSeq(s, m + 1, n)) = IF m + 1 <= n THEN n - (m + 1) + 1 ELSE 0
       /\ \A i \in 1 .. n - (m + 1) + 1 : SubSeq(s, m + 1, n)[i] = s[m + 1 + i - 1]
  <2>1. \A i \in m + 1 .. n : s[i] \in Event
    BY <1>1, <1>4, <1>10
  <2>2. m + 1 \in Int /\ n \in Int
    BY <1>1, <1>10
  <2> QED
    BY <2>1, <2>2, SubSeqProperties
<1>12. CASE e.what = "clear"
  <2>1. Max({0} \cup D) = n + 1
    <3>1. {0} \cup D \subseteq Int /\ n + 1 \in {0} \cup D /\ \A y \in {0} \cup D : n + 1 >= y
      BY <1>1, <1>8, <1>12
    <3> QED
      BY <3>1, MaxIs
  <2>2. SubSeq(t, n + 1 + 1, n + 1) = <<>>
    BY <1>1, SubSeqEmpty
  <2> QED
    BY <1>6, <1>7, <1>9, <1>11, <1>12, <2>1, <2>2 DEF t
<1>13. CASE e.what # "clear"
  <2>1. Max({0} \cup D) = m
    BY <1>8, <1>9, <1>13
  <2>2. PICK a, b \in Int : a = m + 1 /\ b = n + 1
    BY <1>1, <1>10
  <2>0. /\ SubSeq(t, a, b) \in Seq(Event)
        /\ Len(SubSeq(t, a, b)) = IF a <= b THEN b - a + 1 ELSE 0
        /\ \A i \in 1 .. b - a + 1 : SubSeq(t, a, b)[i] = t[a + i - 1]
    <3>1. \A i \in a .. b : t[i] \in Event
      BY <1>1, <1>5, <1>10, <2>2
    <3> QED
      BY <3>1, SubSeqProperties
  <2> DEFINE u == SubSeq(s, m + 1, n)
             v == SubSeq(t, a, b)
  <2>3. Len(u) = n - m /\ Len(v) = n - m + 1 /\ n - m \in Nat
    <3>1. n - (m + 1) + 1 = n - m /\ b - a + 1 = n - m + 1 /\ a <= b /\ n - m \in Nat
      BY <1>1, <1>10, <2>2
    <3>2. ~ (m + 1 <= n) => n - m = 0
      BY <1>1, <1>10
    <3> QED
      BY <1>11, <2>0, <3>1, <3>2
  <2>4. /\ Append(u, e) \in Seq(Event) /\ Len(Append(u, e)) = n - m + 1
        /\ (\A i \in 1 .. n - m : Append(u, e)[i] = u[i]) /\ Append(u, e)[n - m + 1] = e
    BY <1>11, <2>3, AppendProperties
  <2>5. \A i \in 1 .. n - m : u[i] = s[m + i]
    <3> TAKE i \in 1 .. n - m
    <3>1. i \in 1 .. n - (m + 1) + 1 /\ m + 1 + i - 1 = m + i
      BY <1>1, <1>10
    <3> QED
      BY <1>11, <3>1
  <2>6. \A i \in 1 .. n - m + 1 : v[i] = t[m + i]
    <3> TAKE i \in 1 .. n - m + 1
    <3>1. i \in 1 .. b - a + 1 /\ a + i - 1 = m + i
      BY <1>1, <1>10, <2>2
    <3> QED
      BY <2>0, <3>1
  <2> HIDE DEF u, v
  <2>7. \A i \in 1 .. n - m + 1 : v[i] = Append(u, e)[i]
    <3> TAKE i \in 1 .. n - m + 1
    <3>1. CASE i \in 1 .. n - m
      <4>1. m + i \in 1 .. n
        BY <1>1, <1>10, <3>1
      <4> QED
        BY <1>2, <2>4, <2>5, <2>6, <3>1, <4>1
    <3>2. CASE i = n - m + 1
      <4>1. m + i = n + 1
        BY <1>1, <1>10, <3>2
      <4> QED
        BY <1>2, <2>4, <2>6, <3>2, <4>1
    <3> QED
      BY <2>3, <3>1, <3>2
  <2>8. v \in Seq(Event)
    BY <2>0 DEF v
  <2>9. v = Append(u, e)
    BY <2>3, <2>4, <2>7, <2>8, SeqEqual
  <2> QED
    BY <1>6, <1>7, <1>9, <1>11, <1>13, <2>1, <2>2, <2>9 DEF t, u, v
<1> QED
  BY <1>12, <1>13

\* The creations of a name: an array that becomes longer adds what is at its end.
LEMMA CreationsAppend ==
  ASSUME NEW s \in Seq(Event), NEW e \in Event, NEW n
  PROVE  /\ Creations(n, s) \subseteq 1 .. Len(s)
         /\ Creations(n, Append(s, e)) = Creations(n, s)
              \cup (IF e.what = "create" /\ e.name = n THEN {Len(s) + 1} ELSE {})
<1> DEFINE m == Len(s)
           t == Append(s, e)
           made(i) == t[i].what = "create" /\ t[i].name = n
<1>1. m \in Nat
  BY LenProperties
<1>2. t \in Seq(Event) /\ Len(t) = m + 1 /\ (\A i \in 1 .. m : t[i] = s[i]) /\ t[m + 1] = e
  BY AppendProperties
<1>3. DOMAIN s = 1 .. m /\ DOMAIN t = 1 .. m + 1
  BY <1>2, LenProperties
<1>4. Creations(n, t) = {i \in 1 .. m + 1 : made(i)}
  BY <1>3 DEF Creations
<1>5. Creations(n, s) = {i \in 1 .. m : made(i)}
  BY <1>2, <1>3 DEF Creations
<1>6. made(m + 1) <=> e.what = "create" /\ e.name = n
  BY <1>2
<1> HIDE DEF made, t
<1>7. 1 .. m + 1 = (1 .. m) \cup {m + 1}
  BY <1>1
<1>8. {i \in 1 .. m + 1 : made(i)} = {i \in 1 .. m : made(i)} \cup {i \in {m + 1} : made(i)}
  BY <1>7
<1> QED
  BY <1>4, <1>5, <1>6, <1>8 DEF t

\* What an application recorded of n since it created n.
OfApplication(n, s) == CountAfter(Min(Creations(n, s)), s, EventsOf(n))

\* What is counted of a metric of the application grows with its events only.
LEMMA OfApplicationAppend ==
  ASSUME NEW s \in Seq(Event), NEW e \in Event, NEW n, Creations(n, s) # {}
  PROVE  /\ OfApplication(n, s) \in Nat
         /\ OfApplication(n, Append(s, e)) = OfApplication(n, s) + (IF e \in EventsOf(n) THEN 1 ELSE 0)
<1>1. Creations(n, s) \subseteq 1 .. Len(s) /\ Len(s) \in Nat
  BY CreationsAppend, LenProperties
<1>2. PICK m \in Creations(n, s) : \A y \in Creations(n, s) : m <= y
  <2>1. Creations(n, s) \subseteq Nat
    BY <1>1
  <2> QED
    BY <2>1, Least
<1>3. m \in 0 .. Len(s)
  BY <1>1
<1>4. Min(Creations(n, s)) = m
  <2>1. Creations(n, s) \subseteq Int
    BY <1>1
  <2> QED
    BY <1>2, <2>1, MinIs
<1>5. Min(Creations(n, Append(s, e))) = m
  <2>1. PICK T : T = Creations(n, Append(s, e))
    OBVIOUS
  <2>2. T = Creations(n, s) \/ T = Creations(n, s) \cup {Len(s) + 1}
    <3>1. Creations(n, Append(s, e)) = Creations(n, s)
            \cup (IF e.what = "create" /\ e.name = n THEN {Len(s) + 1} ELSE {})
      BY CreationsAppend
    <3> QED
      BY <2>1, <3>1
  <2>3. T \subseteq Int /\ m \in T /\ \A y \in T : m <= y
    BY <1>1, <1>2, <1>3, <2>2
  <2>4. Min(T) = m
    BY <2>3, MinIs
  <2> QED
    BY <2>1, <2>4
<1> QED
  BY <1>3, <1>4, <1>5, CountAfterAppend DEF OfApplication

\* A metric that is created begins at 0.
LEMMA OfApplicationCreated ==
  ASSUME NEW s \in Seq(Event), NEW e \in Event, NEW n, Creations(n, s) = {},
         e.what = "create", e.name = n
  PROVE  Creations(n, Append(s, e)) # {} /\ OfApplication(n, Append(s, e)) = 0
<1>1. Creations(n, Append(s, e)) = {Len(s) + 1}
  BY CreationsAppend
<1>2. Append(s, e) \in Seq(Event) /\ Len(Append(s, e)) = Len(s) + 1
  BY AppendProperties
<1>3. Len(s) + 1 \in Int
  BY LenProperties
<1>4. Min({Len(s) + 1}) = Len(s) + 1
  BY <1>3, MinIs
<1> QED
  BY <1>1, <1>2, <1>4, CountAfterEnd DEF OfApplication

MetricsTypeOK ==
  /\ enabled \in BOOLEAN /\ attached \in BOOLEAN /\ process \subseteq Names
  /\ exposed \in [Names -> [owner : {"none", "service", "application"} \cup DOMAIN Collectors, count : Nat]]
  /\ collectors \in [DOMAIN Collectors -> {"none", "built", "failed"}]
  /\ events \in Seq(Event)

\* A metric that nobody owns was not created since the last clear.  The metrics of the
\* service are exposed as long as the service is attached to them.
Owned(n) ==
  /\ exposed[n].owner = "none" => exposed[n] = Absent /\ Creations(n, Since) = {}
  /\ exposed[n].owner = "service" =>
       /\ enabled /\ attached /\ n \in HttpNames /\ Since = events
       /\ exposed[n].count = CountAfter(0, events, HttpEvents \cup EventsOf(n))
  /\ exposed[n].owner = "application" =>
       /\ Creations(n, Since) # {}
       /\ exposed[n].count = IF enabled THEN OfApplication(n, Since) ELSE 0
  /\ attached /\ n \in HttpNames => exposed[n].owner = "service"

AllOwned == (\A n \in Names : Owned(n)) /\ CollectorsOwnTheirMetrics

\* What an event that is no clear makes of the events since the last clear.
LEMMA EventSince ==
  ASSUME MetricsTypeOK, NEW e \in Event, e.what # "clear", events' = Append(events, e)
  PROVE  /\ events' \in Seq(Event) /\ Since \in Seq(Event) /\ Since' = Append(Since, e)
         /\ (Since = events <=> (Since = events)')
<1>1. events \in Seq(Event)
  BY DEF MetricsTypeOK
<1>2. Since \in Seq(Event) /\ Since' = Append(Since, e)
  BY <1>1, SinceAppend DEF Since
<1>3. events' \in Seq(Event)
  BY <1>1, AppendProperties
<1>4. ASSUME Append(Since, e) = Append(events, e) PROVE Since = events
  <2>1. /\ Len(Append(Since, e)) = Len(Since) + 1 /\ Len(Append(events, e)) = Len(events) + 1
        /\ (\A i \in 1 .. Len(Since) : Append(Since, e)[i] = Since[i])
        /\ (\A i \in 1 .. Len(events) : Append(events, e)[i] = events[i])
    BY <1>1, <1>2, AppendProperties
  <2>2. Len(Since) \in Nat /\ Len(events) \in Nat
    BY <1>1, <1>2, LenProperties
  <2>3. Len(Since) = Len(events)
    <3>1. Len(Since) + 1 = Len(events) + 1
      BY <1>4, <2>1
    <3> QED
      BY <2>2, <3>1
  <2>4. \A i \in 1 .. Len(Since) : Since[i] = events[i]
    BY <1>4, <2>1, <2>3
  <2> QED
    BY <1>1, <1>2, <2>3, <2>4, SeqEqual
<1> QED
  BY <1>2, <1>3, <1>4

\* An event that leaves the owner of n as it is, and that n counts or does not count.
LEMMA OwnedStep ==
  ASSUME MetricsTypeOK, NEW n \in Names, Owned(n),
         NEW e \in Event, e.what # "clear", events' = Append(events, e),
         enabled' = enabled, attached' = attached,
         NEW d \in Nat, exposed'[n] = [owner |-> exposed[n].owner, count |-> exposed[n].count + d],
         exposed[n].owner = "none" => d = 0 /\ ~ (e.what = "create" /\ e.name = n),
         exposed[n].owner = "service" => d = IF e \in HttpEvents \cup EventsOf(n) THEN 1 ELSE 0,
         exposed[n].owner = "application" => d = IF enabled /\ e \in EventsOf(n) THEN 1 ELSE 0
  PROVE  Owned(n)'
<1>1. /\ events \in Seq(Event) /\ Since \in Seq(Event) /\ Since' = Append(Since, e)
      /\ (Since = events <=> (Since = events)')
  BY EventSince DEF MetricsTypeOK
<1>2. exposed'[n].owner = exposed[n].owner /\ exposed'[n].count = exposed[n].count + d
  OBVIOUS
<1>3. exposed[n].count \in Nat
  BY DEF MetricsTypeOK
<1>4. CASE exposed[n].owner = "none"
  <2>1. exposed[n] = Absent /\ Creations(n, Since) = {} /\ d = 0
    BY <1>4 DEF Owned
  <2>2. exposed'[n] = Absent
    BY <2>1 DEF Absent
  <2>3. Creations(n, Since') = {}
    BY <1>1, <1>4, <2>1, CreationsAppend
  <2>4. ~ (attached /\ n \in HttpNames)
    BY <1>4 DEF Owned
  <2>5. Creations(n, Since)' = {}
    BY <2>3 DEF Creations
  <2> QED
    BY <1>2, <1>4, <2>2, <2>4, <2>5 DEF Owned
<1>5. CASE exposed[n].owner = "service"
  <2>1. /\ enabled /\ attached /\ n \in HttpNames /\ Since = events
        /\ exposed[n].count = CountAfter(0, events, HttpEvents \cup EventsOf(n))
    BY <1>5 DEF Owned
  <2>2. PICK these : these = HttpEvents \cup EventsOf(n)
    OBVIOUS
  <2>3. /\ CountAfter(0, events, these) \in Nat
        /\ CountAfter(0, events', these) = CountAfter(0, events, these) + (IF e \in these THEN 1 ELSE 0)
    <3>0. events \in Seq(Event)
      BY <1>1
    <3>1. 0 \in 0 .. Len(events)
      BY <3>0, LenProperties
    <3>2. /\ CountAfter(0, events, these) \in Nat
          /\ CountAfter(0, Append(events, e), these)
               = CountAfter(0, events, these) + (IF e \in these THEN 1 ELSE 0)
      BY ONLY <3>0, <3>1, e \in Event, CountAfterAppend
    <3> QED
      BY <3>2
  <2>4. exposed'[n].count = CountAfter(0, events', these)
    BY <1>2, <1>5, <2>1, <2>2, <2>3
  <2>5. (CountAfter(0, events, HttpEvents \cup EventsOf(n)))' = CountAfter(0, events', these)
    BY <2>2 DEF CountAfter, HttpEvents, EventsOf, Accepts
  <2> QED
    BY <1>1, <1>2, <1>5, <2>1, <2>4, <2>5 DEF Owned
<1>6. CASE exposed[n].owner = "application"
  <2>1. Creations(n, Since) # {} /\ exposed[n].count = IF enabled THEN OfApplication(n, Since) ELSE 0
    BY <1>6 DEF Owned
  <2>2. Creations(n, Since') # {}
    BY <1>1, <2>1, CreationsAppend
  <2>3. /\ OfApplication(n, Since) \in Nat
        /\ OfApplication(n, Since') = OfApplication(n, Since) + (IF e \in EventsOf(n) THEN 1 ELSE 0)
    BY <1>1, <2>1, OfApplicationAppend
  <2>4. exposed'[n].count = IF enabled THEN OfApplication(n, Since') ELSE 0
    BY <1>2, <1>6, <2>1, <2>3
  <2>5. ~ (attached /\ n \in HttpNames)
    BY <1>6 DEF Owned
  <2>6. Creations(n, Since)' = Creations(n, Since') /\ OfApplication(n, Since)' = OfApplication(n, Since')
    BY DEF Creations, OfApplication, CountAfter, EventsOf, Accepts
  <2> QED
    BY <1>2, <1>6, <2>2, <2>4, <2>5, <2>6 DEF Owned
<1>7. CASE exposed[n].owner \notin {"none", "service", "application"}
  BY <1>2, <1>7 DEF Owned
<1> QED
  BY <1>4, <1>5, <1>6, <1>7

\* The event of a step, and what it means that it is added.
LEMMA EventHappens ==
  ASSUME MetricsTypeOK, NEW what \in Whats, NEW n \in Names \cup {"none"}, Happens(what, n)
  PROVE  /\ [what |-> what, name |-> n] \in Event
         /\ events' = Append(events, [what |-> what, name |-> n])
         /\ events' \in Seq(Event)
<1>1. [what |-> what, name |-> n] \in Event
  BY DEF Event
<1>2. events' = Append(events, [what |-> what, name |-> n])
  BY DEF Happens
<1> QED
  BY <1>1, <1>2, AppendProperties DEF MetricsTypeOK

\* The names of a collector.
LEMMA CollectorNames ==
  ASSUME NEW k \in DOMAIN Collectors, NEW n \in ToSet(Collectors[k])
  PROVE  n \in Names
<1>1. Collectors[k] \in Seq(Names)
  BY MetricsAssumption
<1>2. PICK i \in DOMAIN Collectors[k] : n = Collectors[k][i]
  BY DEF ToSet
<1>3. DOMAIN Collectors[k] = 1 .. Len(Collectors[k])
  BY <1>1, LenProperties
<1> QED
  BY <1>1, <1>2, <1>3, ElementOfSeq

\* A step that changes no owner keeps the collectors' metrics theirs.
LEMMA CollectorsStep ==
  ASSUME MetricsTypeOK, CollectorsOwnTheirMetrics,
         NEW e \in Event, e.what # "clear", events' = Append(events, e), collectors' = collectors,
         \A n \in Names : exposed[n].owner # "none" => exposed'[n].owner = exposed[n].owner
  PROVE  CollectorsOwnTheirMetrics'
<1>1. SUFFICES ASSUME NEW k \in DOMAIN Collectors, collectors'[k] = "built", (Since = events)',
                      NEW n \in ToSet(Collectors[k])
               PROVE  exposed'[n].owner = k
  BY DEF CollectorsOwnTheirMetrics
<1>2. Since = events
  BY <1>1, EventSince
<1>3. exposed[n].owner = k
  BY <1>1, <1>2 DEF CollectorsOwnTheirMetrics
<1>5. n \in Names
  BY <1>1, CollectorNames
<1>6. k # "none"
  BY MetricsAssumption
<1> QED
  BY <1>3, <1>5, <1>6

\* A collector registers names that nobody has, all of its own when none is refused.
LEMMA MadeAreAbsent ==
  ASSUME MetricsTypeOK, NEW k \in DOMAIN Collectors, NEW names, names = Collectors[k],
         NEW made,
         made = IF Taken(names) = {} THEN ToSet(names)
                ELSE {names[i] : i \in 1 .. Min(Taken(names)) - 1}
  PROVE  \A n \in made : n \in Names /\ exposed[n] = Absent
<1>1. names \in Seq(Names)
  BY MetricsAssumption
<1>2. DOMAIN names = 1 .. Len(names) /\ Len(names) \in Nat
  BY <1>1, LenProperties
<1>3. \A i \in DOMAIN names : i \notin Taken(names) => names[i] \in Names /\ exposed[names[i]] = Absent
  <2> SUFFICES ASSUME NEW i \in DOMAIN names, i \notin Taken(names)
               PROVE  names[i] \in Names /\ exposed[names[i]] = Absent
    OBVIOUS
  <2>1. names[i] \in Names
    BY <1>1, <1>2, ElementOfSeq
  <2> QED
    BY <2>1 DEF Taken
<1>4. CASE Taken(names) = {}
  BY <1>3, <1>4 DEF ToSet
<1>5. CASE Taken(names) # {}
  <2>1. Taken(names) \subseteq DOMAIN names
    BY DEF Taken
  <2>2. PICK t \in Taken(names) : \A u \in Taken(names) : t <= u
    BY <1>2, <1>5, <2>1, Least
  <2>3. t \in 1 .. Len(names)
    BY <1>2, <2>1
  <2>4. Min(Taken(names)) = t
    <3>1. Taken(names) \subseteq Int
      BY <1>2, <2>1
    <3> QED
      BY <2>2, <3>1, MinIs
  <2>5. \A i \in 1 .. t - 1 : i \in DOMAIN names /\ i \notin Taken(names)
    <3> TAKE i \in 1 .. t - 1
    <3>1. i \in 1 .. Len(names) /\ ~ (t <= i)
      BY <1>2, <2>3
    <3> QED
      BY <1>2, <2>2, <3>1
  <2> QED
    BY <1>3, <1>5, <2>4, <2>5
<1> QED
  BY <1>4, <1>5

\* A step that changes nothing keeps every metric with its owner.
LEMMA Unchanged ==
  ASSUME MetricsTypeOK, AllOwned, UNCHANGED registryVars
  PROVE  MetricsTypeOK' /\ AllOwned'
<1>1. /\ enabled' = enabled /\ exposed' = exposed /\ attached' = attached /\ process' = process
      /\ collectors' = collectors /\ events' = events
  BY DEF registryVars
<1>2. MetricsTypeOK'
  BY <1>1 DEF MetricsTypeOK
<1>3. Since' = Since
  BY <1>1 DEF Since, SinceClear
<1>4. CollectorsOwnTheirMetrics'
  BY <1>1, <1>3 DEF AllOwned, CollectorsOwnTheirMetrics
<1>5. \A n \in Names : Owned(n)'
  <2> TAKE n \in Names
  <2>1. Owned(n)
    BY DEF AllOwned
  <2>2. Creations(n, Since)' = Creations(n, Since) /\ OfApplication(n, Since)' = OfApplication(n, Since)
    BY <1>3 DEF Creations, OfApplication, CountAfter, EventsOf, Accepts
  <2>3. CountAfter(0, events, HttpEvents \cup EventsOf(n))' = CountAfter(0, events, HttpEvents \cup EventsOf(n))
    BY <1>1 DEF CountAfter, HttpEvents, EventsOf, Accepts
  <2>4. (exposed[n] = Absent)' <=> exposed[n] = Absent
    BY <1>1 DEF Absent
  <2> QED
    BY <1>1, <1>3, <2>1, <2>2, <2>3, <2>4 DEF Owned
<1> QED
  BY <1>2, <1>4, <1>5 DEF AllOwned

\* Every operation of the registry keeps every metric with its owner.
LEMMA RegistrySteps ==
  ASSUME MetricsTypeOK, AllOwned, RegistryNext
  PROVE  MetricsTypeOK' /\ AllOwned'
<1>t. /\ enabled \in BOOLEAN /\ attached \in BOOLEAN /\ process \subseteq Names
      /\ exposed \in [Names -> [owner : {"none", "service", "application"} \cup DOMAIN Collectors, count : Nat]]
      /\ collectors \in [DOMAIN Collectors -> {"none", "built", "failed"}]
      /\ events \in Seq(Event)
  BY DEF MetricsTypeOK
<1>o. (\A n \in Names : Owned(n)) /\ CollectorsOwnTheirMetrics
  BY DEF AllOwned
<1>k. /\ HttpNames \subseteq Names /\ Kind \in [Names -> Kinds]
      /\ DOMAIN Collectors \cap {"none", "service", "application"} = {}
  BY MetricsAssumption
<1>1. CASE RecordHttpRequest
  <2>1. /\ Happens("http", "none") /\ UNCHANGED <<enabled, attached, process, collectors>>
        /\ exposed' = IF enabled /\ attached
             THEN [n \in Names |-> IF n \in HttpNames THEN [exposed[n] EXCEPT !.count = @ + 1] ELSE exposed[n]]
             ELSE exposed
    BY <1>1 DEF RecordHttpRequest
  <2> DEFINE e == [what |-> "http", name |-> "none"]
  <2>2. e \in Event /\ events' = Append(events, e) /\ events' \in Seq(Event)
    BY <2>1, EventHappens DEF Whats
  <2>3. e \in HttpEvents /\ \A n \in Names : e \notin EventsOf(n)
    BY <1>k DEF HttpEvents, EventsOf, Accepts, Kinds
  <2>4. e.what = "http"
    OBVIOUS
  <2> HIDE DEF e
  <2>5. \A n \in Names : \E d \in {0, 1} :
          /\ exposed'[n] = [owner |-> exposed[n].owner, count |-> exposed[n].count + d]
          /\ d = 1 <=> attached /\ enabled /\ n \in HttpNames
    <3> TAKE n \in Names
    <3>1. /\ exposed[n] = [owner |-> exposed[n].owner, count |-> exposed[n].count + 0]
          /\ [exposed[n] EXCEPT !.count = @ + 1] = [owner |-> exposed[n].owner, count |-> exposed[n].count + 1]
      BY <1>t
    <3> QED
      BY <2>1, <3>1
  <2>6. \A n \in Names : Owned(n)'
    <3> TAKE n \in Names
    <3>1. PICK d \in {0, 1} :
            /\ exposed'[n] = [owner |-> exposed[n].owner, count |-> exposed[n].count + d]
            /\ d = 1 <=> attached /\ enabled /\ n \in HttpNames
      BY <2>5
    <3>2. Owned(n)
      BY <1>o
    <3>3. /\ exposed[n].owner = "none" => d = 0
          /\ exposed[n].owner = "application" => d = 0
          /\ exposed[n].owner = "service" => d = 1
      BY <3>1, <3>2 DEF Owned
    <3> QED
      BY <2>1, <2>2, <2>3, <2>4, <3>1, <3>2, <3>3, OwnedStep
  <2>7. exposed' \in [Names -> [owner : {"none", "service", "application"} \cup DOMAIN Collectors, count : Nat]]
    <3>1. \A n \in Names : [exposed[n] EXCEPT !.count = @ + 1]
                             \in [owner : {"none", "service", "application"} \cup DOMAIN Collectors, count : Nat]
      BY <1>t
    <3> QED
      BY <1>t, <2>1, <3>1
  <2>8. \A n \in Names : exposed'[n].owner = exposed[n].owner
    <3> TAKE n \in Names
    <3>1. PICK d \in {0, 1} :
            exposed'[n] = [owner |-> exposed[n].owner, count |-> exposed[n].count + d]
      BY <2>5
    <3> QED
      BY <3>1
  <2>9. CollectorsOwnTheirMetrics'
    BY <1>o, <2>1, <2>2, <2>4, <2>8, CollectorsStep
  <2> QED
    BY <1>t, <2>1, <2>2, <2>6, <2>7, <2>9 DEF MetricsTypeOK, AllOwned
<1>2. ASSUME NEW kind \in Kinds, NEW m \in Names, Record(kind, m)
      PROVE  MetricsTypeOK' /\ AllOwned'
  <2>1. /\ Happens(kind, m) /\ UNCHANGED <<enabled, attached, process, collectors>>
        /\ exposed' = IF enabled /\ exposed[m] # Absent /\ Accepts(kind, m)
                      THEN [exposed EXCEPT ![m].count = @ + 1] ELSE exposed
    BY <1>2 DEF Record
  <2> DEFINE e == [what |-> kind, name |-> m]
  <2>2. e \in Event /\ events' = Append(events, e) /\ events' \in Seq(Event)
    BY <2>1, EventHappens DEF Whats
  <2>3. e \notin HttpEvents /\ \A n \in Names : e \in EventsOf(n) <=> n = m /\ Accepts(kind, m)
    BY <1>k DEF HttpEvents, EventsOf, Accepts, Kinds
  <2>4. e.what \notin {"create", "clear"}
    BY DEF Kinds
  <2> HIDE DEF e
  <2>5. \A n \in Names : \E d \in {0, 1} :
          /\ exposed'[n] = [owner |-> exposed[n].owner, count |-> exposed[n].count + d]
          /\ d = 1 <=> enabled /\ exposed[n] # Absent /\ n = m /\ Accepts(kind, m)
    <3> TAKE n \in Names
    <3>1. /\ exposed[n] = [owner |-> exposed[n].owner, count |-> exposed[n].count + 0]
          /\ [exposed[n] EXCEPT !.count = @ + 1] = [owner |-> exposed[n].owner, count |-> exposed[n].count + 1]
      BY <1>t
    <3>2. [exposed EXCEPT ![m].count = @ + 1][n]
             = IF n = m THEN [exposed[n] EXCEPT !.count = @ + 1] ELSE exposed[n]
      BY <1>t
    <3> QED
      BY <2>1, <3>1, <3>2
  <2>6. \A n \in Names : Owned(n)'
    <3> TAKE n \in Names
    <3>1. PICK d \in {0, 1} :
            /\ exposed'[n] = [owner |-> exposed[n].owner, count |-> exposed[n].count + d]
            /\ d = 1 <=> enabled /\ exposed[n] # Absent /\ n = m /\ Accepts(kind, m)
      BY <2>5
    <3>2. Owned(n)
      BY <1>o
    <3>3. exposed[n].owner = "none" => d = 0
      BY <3>1, <3>2 DEF Owned
    <3>4. exposed[n].owner = "application" => d = IF enabled /\ e \in EventsOf(n) THEN 1 ELSE 0
      BY <2>3, <3>1 DEF Absent
    <3>5. exposed[n].owner = "service" => d = IF e \in HttpEvents \cup EventsOf(n) THEN 1 ELSE 0
      BY <2>3, <3>1, <3>2 DEF Absent, Owned
    <3>6. d \in Nat /\ e.what # "clear" /\ e.what # "create" /\ enabled' = enabled /\ attached' = attached
      BY <2>1, <2>4
    <3>7. exposed'[n] = [owner |-> exposed[n].owner, count |-> exposed[n].count + d]
      BY <3>1
    <3> QED
      BY <2>2, <3>2, <3>3, <3>4, <3>5, <3>6, <3>7, OwnedStep
  <2>7. exposed' \in [Names -> [owner : {"none", "service", "application"} \cup DOMAIN Collectors, count : Nat]]
    <3>1. exposed' = [n \in Names |-> exposed'[n]]
      BY <1>t, <2>1
    <3>2. \A n \in Names : exposed'[n]
            \in [owner : {"none", "service", "application"} \cup DOMAIN Collectors, count : Nat]
      <4> TAKE n \in Names
      <4>1. PICK d \in {0, 1} :
              exposed'[n] = [owner |-> exposed[n].owner, count |-> exposed[n].count + d]
        BY <2>5
      <4>2. /\ exposed[n].owner \in {"none", "service", "application"} \cup DOMAIN Collectors
            /\ exposed[n].count + d \in Nat
        BY <1>t
      <4> QED
        BY <4>1, <4>2
    <3> QED
      BY <3>1, <3>2
  <2>8. \A n \in Names : exposed'[n].owner = exposed[n].owner
    <3> TAKE n \in Names
    <3>1. PICK d \in {0, 1} :
            exposed'[n] = [owner |-> exposed[n].owner, count |-> exposed[n].count + d]
      BY <2>5
    <3> QED
      BY <3>1
  <2>9. CollectorsOwnTheirMetrics'
    BY <1>o, <2>1, <2>2, <2>4, <2>8, CollectorsStep
  <2> QED
    BY <1>t, <2>1, <2>2, <2>6, <2>7, <2>9 DEF MetricsTypeOK, AllOwned
<1>3. ASSUME NEW m \in Names, Create(m) PROVE MetricsTypeOK' /\ AllOwned'
  <2>1. /\ Happens("create", m) /\ UNCHANGED <<enabled, attached, process, collectors>>
        /\ exposed' = IF exposed[m] = Absent THEN [exposed EXCEPT ![m] = Created("application")] ELSE exposed
    BY <1>3 DEF Create
  <2> DEFINE e == [what |-> "create", name |-> m]
  <2>2. e \in Event /\ events' = Append(events, e) /\ events' \in Seq(Event)
    BY <2>1, EventHappens DEF Whats
  <2>3. e \notin HttpEvents /\ \A n \in Names : e \notin EventsOf(n)
    BY <1>k DEF HttpEvents, EventsOf, Accepts, Kinds
  <2>4. e.what = "create" /\ e.name = m
    OBVIOUS
  <2> HIDE DEF e
  <2>5. \A n \in Names : Owned(n)'
    <3> TAKE n \in Names
    <3>1. Owned(n)
      BY <1>o
    <3>2. CASE n = m /\ exposed[m] = Absent
      <4>1. exposed'[n] = Created("application")
        BY <1>t, <2>1, <3>2
      <4>2. exposed'[n].owner = "application" /\ exposed'[n].count = 0
        BY <4>1 DEF Created
      <4>3. exposed[n].owner = "none"
        BY <3>2 DEF Absent
      <4>4. Creations(n, Since) = {} /\ ~ (attached /\ n \in HttpNames)
        BY <3>1, <4>3 DEF Owned
      <4>5. Since \in Seq(Event) /\ Since' = Append(Since, e)
        BY <2>2, <2>4, EventSince
      <4>6. Creations(n, Since') # {} /\ OfApplication(n, Since') = 0
        BY <2>2, <2>4, <3>2, <4>4, <4>5, OfApplicationCreated
      <4>7. Creations(n, Since)' = Creations(n, Since') /\ OfApplication(n, Since)' = OfApplication(n, Since')
        BY DEF Creations, OfApplication, CountAfter, EventsOf, Accepts
      <4> QED
        BY <2>1, <4>2, <4>4, <4>6, <4>7 DEF Owned
    <3>3. CASE ~ (n = m /\ exposed[m] = Absent)
      <4>1. exposed'[n] = exposed[n]
        BY <1>t, <2>1, <3>3
      <4>2. exposed[n] = [owner |-> exposed[n].owner, count |-> exposed[n].count + 0]
        BY <1>t
      <4>3. exposed[n].owner = "none" => n # m
        BY <3>1, <3>3 DEF Owned
      <4> QED
        BY <2>1, <2>2, <2>3, <2>4, <3>1, <4>1, <4>2, <4>3, OwnedStep
    <3> QED
      BY <3>2, <3>3
  <2>6. exposed' \in [Names -> [owner : {"none", "service", "application"} \cup DOMAIN Collectors, count : Nat]]
    BY <1>t, <2>1 DEF Created
  <2>7. \A n \in Names : exposed[n].owner # "none" => exposed'[n].owner = exposed[n].owner
    BY <1>t, <2>1 DEF Absent
  <2>8. CollectorsOwnTheirMetrics'
    BY <1>o, <2>1, <2>2, <2>4, <2>7, CollectorsStep
  <2> QED
    BY <1>t, <2>1, <2>2, <2>5, <2>6, <2>8 DEF MetricsTypeOK, AllOwned
<1>4. ASSUME NEW m \in Names, FactoryCreate(m) PROVE MetricsTypeOK' /\ AllOwned'
  <2>1. /\ Happens("factory", m) /\ process' = process \cup {m}
        /\ UNCHANGED <<enabled, exposed, attached, collectors>>
    BY <1>4 DEF FactoryCreate
  <2> DEFINE e == [what |-> "factory", name |-> m]
  <2>2. e \in Event /\ events' = Append(events, e) /\ events' \in Seq(Event)
    BY <2>1, EventHappens DEF Whats
  <2>3. e \notin HttpEvents /\ \A n \in Names : e \notin EventsOf(n)
    BY <1>k DEF HttpEvents, EventsOf, Accepts, Kinds
  <2>4. e.what = "factory"
    OBVIOUS
  <2> HIDE DEF e
  <2>5. \A n \in Names : Owned(n)'
    <3> TAKE n \in Names
    <3>1. exposed'[n] = [owner |-> exposed[n].owner, count |-> exposed[n].count + 0]
      BY <1>t, <2>1
    <3>2. Owned(n)
      BY <1>o
    <3> QED
      BY <2>1, <2>2, <2>3, <2>4, <3>1, <3>2, OwnedStep
  <2>6. CollectorsOwnTheirMetrics'
    BY <1>o, <2>1, <2>2, <2>4, CollectorsStep
  <2> QED
    BY <1>t, <2>1, <2>2, <2>5, <2>6 DEF MetricsTypeOK, AllOwned
<1>5. ASSUME NEW k \in DOMAIN Collectors, BuildCollector(k) PROVE MetricsTypeOK' /\ AllOwned'
  <2>1. PICK names, made :
          /\ names = Collectors[k]
          /\ made = IF Taken(names) = {} THEN ToSet(names)
                    ELSE {names[i] : i \in 1 .. Min(Taken(names)) - 1}
          /\ exposed' = [n \in Names |-> IF n \in made THEN Created(k) ELSE exposed[n]]
          /\ collectors' = [collectors EXCEPT ![k] = IF Taken(names) = {} THEN "built" ELSE "failed"]
    BY <1>5 DEF BuildCollector
  <2>2. Happens("build", "none") /\ UNCHANGED <<enabled, attached, process>> /\ collectors[k] # "built"
    BY <1>5 DEF BuildCollector
  <2> DEFINE e == [what |-> "build", name |-> "none"]
  <2>3. e \in Event /\ events' = Append(events, e) /\ events' \in Seq(Event)
    BY <2>2, EventHappens DEF Whats
  <2>4. e \notin HttpEvents /\ \A n \in Names : e \notin EventsOf(n)
    BY <1>k DEF HttpEvents, EventsOf, Accepts, Kinds
  <2>5. e.what = "build"
    OBVIOUS
  <2> HIDE DEF e
  <2>6. \A n \in made : n \in Names /\ exposed[n] = Absent
    <3>1. /\ names = Collectors[k]
          /\ made = IF Taken(names) = {} THEN ToSet(names)
                    ELSE {names[i] : i \in 1 .. Min(Taken(names)) - 1}
      BY <2>1
    <3> QED
      BY ONLY MetricsTypeOK, <3>1, k \in DOMAIN Collectors, MadeAreAbsent
  <2>7. k \notin {"none", "service", "application"}
    BY <1>k
  <2>8. \A n \in Names : Owned(n)'
    <3> TAKE n \in Names
    <3>1. Owned(n)
      BY <1>o
    <3>2. CASE n \in made
      <4>1. exposed'[n].owner = k
        BY <2>1, <3>2 DEF Created
      <4>2. exposed[n].owner = "none"
        BY <2>6, <3>2 DEF Absent
      <4>3. ~ (attached /\ n \in HttpNames)
        BY <3>1, <4>2 DEF Owned
      <4> QED
        BY <2>2, <2>7, <4>1, <4>3 DEF Owned
    <3>3. CASE n \notin made
      <4>1. exposed'[n] = [owner |-> exposed[n].owner, count |-> exposed[n].count + 0]
        BY <1>t, <2>1, <3>3
      <4> QED
        BY <2>2, <2>3, <2>4, <2>5, <3>1, <4>1, OwnedStep
    <3> QED
      BY <3>2, <3>3
  <2>9. exposed' \in [Names -> [owner : {"none", "service", "application"} \cup DOMAIN Collectors, count : Nat]]
    BY <1>t, <2>1 DEF Created
  <2>10. collectors' \in [DOMAIN Collectors -> {"none", "built", "failed"}]
    BY <1>t, <2>1
  <2>11. CollectorsOwnTheirMetrics'
    <3>1. SUFFICES ASSUME NEW j \in DOMAIN Collectors, collectors'[j] = "built", (Since = events)',
                          NEW n \in ToSet(Collectors[j])
                   PROVE  exposed'[n].owner = j
      BY DEF CollectorsOwnTheirMetrics
    <3>2. CASE j = k
      <4>1. Taken(names) = {}
        BY <1>t, <2>1, <3>1, <3>2
      <4>2. n \in made
        BY <2>1, <3>1, <3>2, <4>1
      <4> QED
        BY <2>1, <2>6, <3>2, <4>2 DEF Created
    <3>3. CASE j # k
      <4>1. collectors[j] = "built" /\ Since = events
        BY <1>t, <2>1, <2>3, <2>5, <3>1, <3>3, EventSince
      <4>2. exposed[n].owner = j
        BY <1>o, <3>1, <4>1 DEF CollectorsOwnTheirMetrics
      <4>3. n \in Names
        BY <3>1, CollectorNames
      <4>4. n \notin made
        BY <1>k, <2>6, <4>2 DEF Absent
      <4> QED
        BY <2>1, <4>2, <4>3, <4>4
    <3> QED
      BY <3>2, <3>3
  <2> QED
    BY <1>t, <2>2, <2>3, <2>8, <2>9, <2>10, <2>11 DEF MetricsTypeOK, AllOwned
<1>6. CASE Clear
  <2>1. /\ Happens("clear", "none") /\ UNCHANGED <<enabled, process, collectors>>
        /\ exposed' = [n \in Names |-> Absent] /\ attached' = FALSE
    BY <1>6 DEF Clear
  <2> DEFINE e == [what |-> "clear", name |-> "none"]
  <2>2. e \in Event /\ events' = Append(events, e) /\ events' \in Seq(Event)
    BY <2>1, EventHappens DEF Whats
  <2>3. e.what = "clear"
    OBVIOUS
  <2> HIDE DEF e
  <2>4. Since' = <<>>
    BY <1>t, <2>2, <2>3, SinceAppend DEF Since
  <2>5. events' # <<>>
    <3>1. Len(events') = Len(events) + 1 /\ Len(events) \in Nat
      BY <1>t, <2>2, AppendProperties, LenProperties
    <3>2. Len(<<>>) = 0
      BY EmptySeq
    <3> QED
      BY <3>1, <3>2
  <2>6. \A n \in Names : Owned(n)'
    <3> TAKE n \in Names
    <3>1. exposed'[n] = Absent /\ Absent.owner = "none"
      BY <2>1 DEF Absent
    <3>2. Creations(n, Since)' = {}
      BY <2>4 DEF Creations
    <3>3. (exposed[n] = Absent)'
      BY <3>1 DEF Absent
    <3> QED
      BY <2>1, <3>1, <3>2, <3>3 DEF Owned
  <2>7. CollectorsOwnTheirMetrics'
    BY <2>4, <2>5 DEF CollectorsOwnTheirMetrics
  <2>8. exposed' \in [Names -> [owner : {"none", "service", "application"} \cup DOMAIN Collectors, count : Nat]]
    BY <2>1 DEF Absent
  <2> QED
    BY <1>t, <2>1, <2>2, <2>6, <2>7, <2>8 DEF MetricsTypeOK, AllOwned
<1>7. ASSUME UNCHANGED registryVars PROVE MetricsTypeOK' /\ AllOwned'
  BY <1>7, Unchanged
<1> QED
  BY <1>1, <1>2, <1>3, <1>4, <1>5, <1>6, <1>7 DEF RegistryNext, RegisterMetric

\* Each metric that is exposed shows what was recorded by its owner: the requests since
\* the start for those of the service, what was recorded of it since it was created for one
\* of the application; and no collector that was built shares a metric.
THEOREM ExposureCorrect == RegistrySpec => []ExposureIsExact
<1>1. RegistryInit => MetricsTypeOK /\ AllOwned
  <2> SUFFICES ASSUME RegistryInit PROVE MetricsTypeOK /\ AllOwned
    OBVIOUS
  <2>1. /\ enabled \in BOOLEAN /\ attached = enabled /\ process = {}
        /\ exposed = [n \in Names |-> IF enabled /\ n \in HttpNames THEN Created("service") ELSE Absent]
        /\ collectors = [k \in DOMAIN Collectors |-> "none"] /\ events = <<>>
    BY DEF RegistryInit
  <2>2. events \in Seq(Event) /\ Len(events) = 0 /\ DOMAIN events = {}
    BY <2>1, EmptySeq
  <2>3. MetricsTypeOK
    BY <2>1, <2>2 DEF MetricsTypeOK, Created, Absent
  <2>4. Since = <<>>
    <3>1. SinceClear(events) = SubSeq(events, Max({0}) + 1, 0)
      <4>1. {i \in DOMAIN events : events[i].what = "clear"} = {}
        BY <2>2
      <4> QED
        BY <2>2, <4>1 DEF SinceClear
    <3>2. Max({0}) = 0
      BY MaxIs
    <3> QED
      BY <3>1, <3>2, SubSeqEmpty DEF Since
  <2>5. \A n \in Names : Owned(n)
    <3> TAKE n \in Names
    <3>1. Creations(n, Since) = {}
      BY <2>4 DEF Creations
    <3>2. \A these : CountAfter(0, events, these) = 0
      BY <2>2, CountAfterEnd
    <3>3. CASE enabled /\ n \in HttpNames
      <4>1. exposed[n].owner = "service" /\ exposed[n].count = 0
        BY <2>1, <3>3 DEF Created
      <4> QED
        BY <2>1, <2>4, <3>2, <3>3, <4>1 DEF Owned
    <3>4. CASE ~ (enabled /\ n \in HttpNames)
      <4>1. exposed[n] = Absent /\ exposed[n].owner = "none"
        BY <2>1, <3>4 DEF Absent
      <4> QED
        BY <2>1, <3>1, <3>4, <4>1 DEF Owned
    <3> QED
      BY <3>3, <3>4
  <2>6. CollectorsOwnTheirMetrics
    BY <2>1 DEF CollectorsOwnTheirMetrics
  <2> QED
    BY <2>3, <2>5, <2>6 DEF AllOwned
<1>2. MetricsTypeOK /\ AllOwned /\ [RegistryNext]_registryVars => (MetricsTypeOK /\ AllOwned)'
  BY RegistrySteps, Unchanged
<1>3. AllOwned => ExposureIsExact
  BY DEF AllOwned, Owned, OfApplication, ExposureIsExact, ExposedIsRecorded
<1> QED
  BY <1>1, <1>2, <1>3, PTL DEF RegistrySpec

-----------------------------------------------------------------------------
(* HttpClientService: the promise of Request                               *)

ClientCalls == [socket : {"none", "open", "destroyed", "closed"}, sent : BOOLEAN,
                res : {"none", "flowing", "complete", "ended", "cut"},
                size : 0 .. MaxPayload + MaxChunk, lost : BOOLEAN,
                promise : {"none", "pending", "resolved"} \cup Reasons]

\* A promise that is still open lost no chunk: the first one that was dropped rejected it.
\* What was read of an open socket is within the limit.
Whole(x) ==
  /\ x.promise = "none" => x = Unused
  /\ x.promise \in {"none", "pending"} => ~ x.lost
  /\ x.promise = "resolved" => x.res = "ended" /\ ~ x.lost
  /\ x.socket = "open" => x.size <= MaxPayload

AllWhole == HttpTypeOK /\ \A c \in Calls : Whole(http[c])

\* A step of one call.
LEMMA CallStep ==
  ASSUME AllWhole, NEW c \in Calls, NEW x \in ClientCalls, Whole(x), http' = [http EXCEPT ![c] = x]
  PROVE  AllWhole'
<1>1. http \in [Calls -> ClientCalls]
  BY DEF AllWhole, HttpTypeOK, ClientCalls
<1>2. http' \in [Calls -> ClientCalls]
  BY <1>1
<1>3. \A d \in Calls : http'[d] = IF d = c THEN x ELSE http[d]
  BY <1>1
<1>4. \A d \in Calls : Whole(http'[d])
  BY <1>3 DEF AllWhole
<1> QED
  BY <1>2, <1>4 DEF AllWhole, HttpTypeOK, ClientCalls, Whole, Unused

\* Every step of a call leaves its promise whole.
LEMMA HttpClientSteps ==
  ASSUME AllWhole, HttpClientNext
  PROVE  AllWhole'
<1>1. PICK c \in Calls : (\E input \in {"good", "badUrl", "circular"} : Request(c, input)) \/ SocketEvent(c)
  BY DEF HttpClientNext
<1> DEFINE h == http[c]
<1>0. http \in [Calls -> ClientCalls]
  BY DEF AllWhole, HttpTypeOK, ClientCalls
<1>2. h \in ClientCalls /\ Whole(h)
  BY DEF AllWhole, HttpTypeOK, ClientCalls
<1>3. MaxPayload \in Nat /\ MaxChunk \in Nat \ {0}
  BY SizesAssumption
<1>4. ASSUME NEW input \in {"good", "badUrl", "circular"}, Request(c, input) PROVE AllWhole'
  <2>1. h.res = "none" /\ ~ h.lost /\ h.size <= MaxPayload
    <3>1. h = Unused
      BY <1>2, <1>4 DEF Request, Whole
    <3> QED
      BY <1>3, <3>1 DEF Unused
  <2>2. CASE input = "good"
    <3> DEFINE x == [h EXCEPT !.socket = "open", !.sent = TRUE, !.promise = "pending"]
    <3>1. http' = [http EXCEPT ![c] = x]
      BY <1>0, <1>4, <2>2 DEF Request
    <3>3. x \in ClientCalls /\ Whole(x)
      BY <1>2, <2>1 DEF Whole, Unused, ClientCalls, Reasons
    <3> QED
      BY <3>1, <3>3, CallStep
  <2>3. CASE input = "badUrl"
    <3> DEFINE x == [h EXCEPT !.promise = "badRequest"]
    <3>1. http' = [http EXCEPT ![c] = x]
      BY <1>0, <1>4, <2>3 DEF Request
    <3>3. x \in ClientCalls /\ Whole(x)
      BY <1>2, <2>1 DEF Whole, Unused, ClientCalls, Reasons
    <3> QED
      BY <3>1, <3>3, CallStep
  <2>4. CASE input = "circular"
    <3> DEFINE x == [h EXCEPT !.socket = "open", !.promise = "badRequest"]
    <3>1. http' = [http EXCEPT ![c] = x]
      BY <1>0, <1>4, <2>4 DEF Request
    <3>3. x \in ClientCalls /\ Whole(x)
      BY <1>2, <2>1 DEF Whole, Unused, ClientCalls, Reasons
    <3> QED
      BY <3>1, <3>3, CallStep
  <2> QED
    BY <2>2, <2>3, <2>4
<1>5. CASE ResponseArrives(c)
  <2> DEFINE x == [h EXCEPT !.res = "flowing"]
  <2>1. http' = [http EXCEPT ![c] = x] /\ h.res = "none"
    BY <1>0, <1>5 DEF ResponseArrives
  <2>3. x \in ClientCalls /\ Whole(x)
    BY <1>2, <1>5, <2>1 DEF Whole, Unused, ClientCalls, ResponseArrives
  <2> QED
    BY <2>1, <2>3, CallStep
<1>6. ASSUME NEW n \in 1 .. MaxChunk, NEW last \in BOOLEAN, OnData(c, n, last) PROVE AllWhole'
  <2>1. PICK size, res : size = h.size + n /\ res = IF last THEN "complete" ELSE "flowing"
    OBVIOUS
  <2>2. h.socket = "open" /\ h.res = "flowing"
    BY <1>0, <1>6 DEF OnData
  <2>3. size \in 0 .. MaxPayload + MaxChunk /\ res \in {"complete", "flowing"}
    <3>1. h.size \in Nat /\ h.size <= MaxPayload
      BY <1>2, <1>3, <2>2 DEF Whole, ClientCalls
    <3>2. h.size + n \in 0 .. MaxPayload + MaxChunk
      BY <1>3, <3>1
    <3> QED
      BY <2>1, <3>2
  <2>4. h.promise \notin {"none", "resolved"}
    BY <1>2, <2>2 DEF Whole, Unused
  <2>5. CASE size > MaxPayload
    <3> DEFINE x == [h EXCEPT !.size = size, !.res = res, !.socket = "destroyed", !.lost = TRUE, !.promise = Settle(c, "tooLarge")]
    <3>1. http' = [http EXCEPT ![c] = x]
      BY <1>0, <1>6, <2>1, <2>5 DEF OnData
    <3>3. Settle(c, "tooLarge") \in Reasons
      BY <1>2, <2>4 DEF Settle, Reasons, ClientCalls
    <3>4. x \in ClientCalls /\ Whole(x)
      BY <1>2, <2>3, <3>3 DEF Whole, Unused, ClientCalls, Reasons
    <3> QED
      BY <3>1, <3>4, CallStep
  <2>6. CASE ~ (size > MaxPayload)
    <3> DEFINE x == [h EXCEPT !.size = size, !.res = res]
    <3>1. http' = [http EXCEPT ![c] = x]
      BY <1>0, <1>6, <2>1, <2>6 DEF OnData
    <3>3. size <= MaxPayload
      BY <1>3, <2>3, <2>6
    <3>4. x \in ClientCalls /\ Whole(x)
      BY <1>2, <2>3, <2>4, <3>3 DEF Whole, Unused, ClientCalls
    <3> QED
      BY <3>1, <3>4, CallStep
  <2> QED
    BY <2>5, <2>6
<1>7. CASE MessageCompletes(c)
  <2> DEFINE x == [h EXCEPT !.res = "complete"]
  <2>1. http' = [http EXCEPT ![c] = x] /\ h.res = "flowing"
    BY <1>0, <1>7 DEF MessageCompletes
  <2>3. x \in ClientCalls /\ Whole(x)
    BY <1>2, <2>1 DEF Whole, Unused, ClientCalls
  <2> QED
    BY <2>1, <2>3, CallStep
<1>8. CASE OnEnd(c)
  <2>1. PICK how \in {"resolved", "badBody"} :
          http' = [http EXCEPT ![c] = [h EXCEPT !.res = "ended", !.socket = "closed", !.promise = Settle(c, how)]]
    BY <1>0, <1>8 DEF OnEnd
  <2> DEFINE x == [h EXCEPT !.res = "ended", !.socket = "closed", !.promise = Settle(c, how)]
  <2>3. h.res = "complete"
    BY <1>0, <1>8 DEF OnEnd
  <2>4. Settle(c, how) = IF h.promise = "pending" THEN how ELSE h.promise
    BY DEF Settle
  <2>5. h.promise \notin {"none", "resolved"}
    BY <1>2, <2>3 DEF Whole, Unused
  <2>6. x \in ClientCalls /\ Whole(x)
    BY <1>2, <2>4, <2>5 DEF Whole, Unused, ClientCalls, Reasons
  <2> QED
    BY <2>1, <2>6, CallStep
<1>9. CASE OnResponseError(c)
  <2> DEFINE x == [h EXCEPT !.res = "cut", !.socket = "closed", !.promise = Settle(c, "resError")]
  <2>1. http' = [http EXCEPT ![c] = x] /\ h.res = "flowing"
    BY <1>0, <1>9 DEF OnResponseError
  <2>3. h.promise \notin {"none", "resolved"}
    BY <1>2, <2>1 DEF Whole, Unused
  <2>4. Settle(c, "resError") \in Reasons
    BY <1>2, <2>3 DEF Settle, Reasons, ClientCalls
  <2>5. x \in ClientCalls /\ Whole(x)
    BY <1>2, <2>4 DEF Whole, Unused, ClientCalls, Reasons
  <2> QED
    BY <2>1, <2>5, CallStep
<1>10. ASSUME NEW s \in {"closed", "destroyed"}, NEW how \in {"reqError", "timeout"},
              http' = [http EXCEPT ![c] = [h EXCEPT !.socket = s, !.promise = Settle(c, how)]],
              h.socket \in {"open", "destroyed"}, h.res \in {"none", "flowing"}
       PROVE  AllWhole'
  <2> DEFINE x == [h EXCEPT !.socket = s, !.promise = Settle(c, how)]
  <2>2. h.promise \notin {"none", "resolved"}
    BY <1>2, <1>10 DEF Whole, Unused
  <2>3. Settle(c, how) \in Reasons
    BY <1>2, <2>2 DEF Settle, Reasons, ClientCalls
  <2>4. x \in ClientCalls /\ Whole(x)
    BY <1>2, <2>3 DEF Whole, Unused, ClientCalls, Reasons
  <2> QED
    BY <1>10, <2>4, CallStep
<1>11. CASE OnRequestError(c)
  BY <1>0, <1>10, <1>11 DEF OnRequestError
<1>12. CASE OnTimeout(c)
  BY <1>0, <1>10, <1>12 DEF OnTimeout
<1> QED
  BY <1>1, <1>4, <1>5, <1>6, <1>7, <1>8, <1>9, <1>11, <1>12 DEF SocketEvent

\* A call that resolves was given the whole body of a response that came to its end,
\* whatever order the data, the end, the errors and the timeout of its socket come in.
THEOREM SuccessCorrect == HttpClientSpec => [](HttpTypeOK /\ SuccessIsWhole)
<1>1. HttpInit => AllWhole
  BY SizesAssumption DEF HttpInit, AllWhole, HttpTypeOK, Whole, Unused
<1>2. AllWhole /\ [HttpClientNext]_http => AllWhole'
  <2>1. ASSUME AllWhole, UNCHANGED http PROVE AllWhole'
    BY <2>1 DEF AllWhole, HttpTypeOK, Whole, Unused, Reasons
  <2> QED
    BY <2>1, HttpClientSteps
<1>3. AllWhole => HttpTypeOK /\ SuccessIsWhole
  BY DEF AllWhole, Whole, SuccessIsWhole
<1> QED
  BY <1>1, <1>2, <1>3, PTL DEF HttpClientSpec

-----------------------------------------------------------------------------
(* The walk over a graph (ObjectWalk)                                      *)

\* A set of numbers that has 0, and each number after one that it has.
LEMMA UpTo ==
  ASSUME NEW n \in Nat, NEW T, 0 \in T, \A i \in 1 .. n : i - 1 \in T => i \in T
  PROVE  \A i \in 0 .. n : i \in T
<1> DEFINE U == {i \in 0 .. n : i \notin T}
<1> SUFFICES ASSUME U # {} PROVE FALSE
  OBVIOUS
<1>1. PICK x \in U : \A y \in U : x <= y
  <2>1. U \subseteq Nat
    OBVIOUS
  <2> HIDE DEF U
  <2> QED
    BY <2>1, Least
<1>2. x \in 1 .. n /\ x \notin T
  BY <1>1
<1>3. x - 1 \in U /\ ~ (x <= x - 1)
  BY <1>2
<1> QED
  BY <1>1, <1>3

\* What a graph is, without sequences.
LEMMA GraphIs ==
  ASSUME NEW names, NEW g \in Graphs(names)
  PROVE  /\ Len(g) \in Nat /\ DOMAIN g = 1 .. Len(g)
         /\ \A n \in DOMAIN g :
              /\ Len(g[n]) \in Nat /\ DOMAIN g[n] = 1 .. Len(g[n])
              /\ \A i \in DOMAIN g[n] : /\ g[n][i] \in [key : names, val : Nat]
                                        /\ g[n][i].val \in 0 .. Len(g)
<1>1. g \in Seq(Seq([key : names, val : Nat]))
  BY DEF Graphs
<1>2. Len(g) \in Nat /\ DOMAIN g = 1 .. Len(g)
  BY <1>1, LenProperties
<1> SUFFICES ASSUME NEW n \in DOMAIN g
             PROVE  /\ Len(g[n]) \in Nat /\ DOMAIN g[n] = 1 .. Len(g[n])
                    /\ \A i \in DOMAIN g[n] : /\ g[n][i] \in [key : names, val : Nat]
                                              /\ g[n][i].val \in 0 .. Len(g)
  BY <1>2
<1>3. g[n] \in Seq([key : names, val : Nat])
  BY <1>1, <1>2, ElementOfSeq
<1>4. Len(g[n]) \in Nat /\ DOMAIN g[n] = 1 .. Len(g[n])
  BY <1>3, LenProperties
<1>5. \A i \in DOMAIN g[n] : g[n][i] \in [key : names, val : Nat]
  BY <1>3, <1>4, ElementOfSeq
<1>6. \A i \in DOMAIN g[n] : g[n][i].val <= Len(g)
  BY DEF Graphs
<1> QED
  BY <1>2, <1>4, <1>5, <1>6

LEMMA EntriesAre ==
  ASSUME NEW names, NEW g \in Graphs(names), NEW e \in Entries(g)
  PROVE  /\ e = <<e[1], e[2]>> /\ e[1] \in DOMAIN g /\ e[2] \in DOMAIN g[e[1]]
         /\ e[2] \in Nat /\ e[2] > 0 /\ e[2] <= Len(g[e[1]])
<1>1. PICK n \in DOMAIN g : e \in {n} \X DOMAIN g[n]
  BY DEF Entries
<1>2. Len(g[n]) \in Nat /\ DOMAIN g[n] = 1 .. Len(g[n])
  BY GraphIs
<1> QED
  BY <1>1, <1>2

\* The objects of a graph have at most so many entries.
LEMMA WidthExists ==
  ASSUME NEW names, NEW g \in Graphs(names)
  PROVE  \E w \in Nat : \A n \in DOMAIN g : Len(g[n]) <= w
<1> DEFINE T == {k \in 0 .. Len(g) : \E w \in Nat : \A n \in 1 .. k : Len(g[n]) <= w}
<1>1. Len(g) \in Nat /\ DOMAIN g = 1 .. Len(g) /\ \A n \in 1 .. Len(g) : Len(g[n]) \in Nat
  BY GraphIs
<1>2. 0 \in T
  BY <1>1
<1>3. ASSUME NEW k \in 1 .. Len(g), k - 1 \in T PROVE k \in T
  <2>1. PICK w \in Nat : \A n \in 1 .. k - 1 : Len(g[n]) <= w
    BY <1>3
  <2> DEFINE x == w + Len(g[k])
  <2>2. x \in Nat /\ \A n \in 1 .. k : Len(g[n]) <= x
    <3>1. Len(g[k]) \in Nat
      BY <1>1
    <3>2. \A n \in 1 .. k : n = k \/ n \in 1 .. k - 1
      BY <1>1
    <3>3. \A n \in 1 .. k : Len(g[n]) \in Nat
      BY <1>1
    <3> QED
      BY <2>1, <3>1, <3>2, <3>3
  <2> HIDE DEF x
  <2>3. \E y \in Nat : \A n \in 1 .. k : Len(g[n]) <= y
    BY <2>2
  <2> QED
    BY <1>1, <2>3
<1> HIDE DEF T
<1>4. \A k \in 0 .. Len(g) : k \in T
  BY <1>1, <1>2, <1>3, UpTo
<1>5. Len(g) \in T
  BY <1>1, <1>4
<1> QED
  BY <1>1, <1>5 DEF T

\* A visit is made after those of its object with fewer entries, and those that lie deeper.
Before(u, v) == u.depth > v.depth \/ (u.depth = v.depth /\ u.upto < v.upto)

\* Numbers for visits, when no object has more than w entries.
Rank(w, p, v) == (p.max - v.depth) * (w + 1) + v.upto

LEMMA RankGrows ==
  ASSUME NEW names, NEW g \in Graphs(names), NEW p, p.max \in Nat, NEW w \in Nat, \A n \in DOMAIN g : Len(g[n]) <= w
  PROVE  /\ \A v \in Visits(g, p) : Rank(w, p, v) \in 0 .. (p.max + 1) * (w + 1) - 1
         /\ \A u, v \in Visits(g, p) : Before(u, v) => Rank(w, p, u) < Rank(w, p, v)
<1>1. \A v \in Visits(g, p) : v.upto \in 0 .. w /\ v.depth \in 0 .. p.max
  <2> TAKE v \in Visits(g, p)
  <2>1. v.object \in DOMAIN g /\ v.upto \in Nat /\ v.depth \in 0 .. p.max /\ v.upto <= Len(g[v.object])
    BY DEF Visits
  <2>2. Len(g[v.object]) \in Nat /\ Len(g[v.object]) <= w
    BY <2>1, GraphIs
  <2> QED
    BY <2>1, <2>2
<1>2. \A a, b, c \in Nat : a < b => a * c + c <= b * c
  <2> TAKE a, b, c \in Nat
  <2> HAVE a < b
  <2>1. b - a - 1 \in Nat /\ b = a + 1 + (b - a - 1)
    OBVIOUS
  <2>2. \A d \in Nat : (a + 1 + d) * c = a * c + c + d * c /\ d * c \in Nat /\ a * c \in Nat
    OBVIOUS
  <2> QED
    BY <2>1, <2>2
<1>3. \A a, c \in Nat : a * c \in Nat
  OBVIOUS
<1>4. ASSUME NEW v \in Visits(g, p)
      PROVE  Rank(w, p, v) \in 0 .. (p.max + 1) * (w + 1) - 1
  <2>1. p.max - v.depth \in Nat /\ p.max - v.depth < p.max + 1 /\ p.max + 1 \in Nat /\ w + 1 \in Nat
    BY <1>1
  <2>2. /\ (p.max - v.depth) * (w + 1) + (w + 1) <= (p.max + 1) * (w + 1)
        /\ (p.max - v.depth) * (w + 1) \in Nat /\ (p.max + 1) * (w + 1) \in Nat
    BY <2>1, <1>2, <1>3
  <2>3. v.upto \in 0 .. w
    BY <1>1
  <2> DEFINE a == (p.max - v.depth) * (w + 1)
             b == (p.max + 1) * (w + 1)
  <2>4. Rank(w, p, v) = a + v.upto
    BY DEF Rank
  <2>5. a \in Nat /\ b \in Nat /\ a + (w + 1) <= b
    BY <2>2
  <2> HIDE DEF a, b
  <2>6. a + v.upto \in 0 .. b - 1
    BY <2>3, <2>5
  <2> QED
    BY <2>4, <2>6 DEF b
<1>5. ASSUME NEW u \in Visits(g, p), NEW v \in Visits(g, p), Before(u, v)
      PROVE  Rank(w, p, u) < Rank(w, p, v)
  <2> DEFINE a == (p.max - u.depth) * (w + 1)
             b == (p.max - v.depth) * (w + 1)
  <2>1. /\ u.upto \in 0 .. w /\ u.depth \in 0 .. p.max
        /\ v.upto \in 0 .. w /\ v.depth \in 0 .. p.max
    BY <1>1
  <2>2. Rank(w, p, u) = a + u.upto /\ Rank(w, p, v) = b + v.upto
    BY DEF Rank
  <2>3. p.max - u.depth \in Nat /\ p.max - v.depth \in Nat /\ w + 1 \in Nat
    BY <2>1
  <2>4. a \in Nat /\ b \in Nat
    BY <2>3, <1>3
  <2>5. CASE u.depth > v.depth
    <3>1. p.max - u.depth < p.max - v.depth
      BY <2>1, <2>5
    <3>2. a + (w + 1) <= b
      BY <3>1, <2>3, <1>2
    <3> HIDE DEF a, b
    <3> QED
      BY <3>2, <2>1, <2>2, <2>4
  <2>6. CASE u.depth = v.depth /\ u.upto < v.upto
    <3>1. a = b
      BY <2>6
    <3> HIDE DEF a, b
    <3> QED
      BY <3>1, <2>1, <2>2, <2>4, <2>6
  <2> QED
    BY <1>5, <2>5, <2>6 DEF Before
<1> QED
  BY <1>4, <1>5

\* What holds of a visit when it holds of all that are made before it holds of all.
LEMMA VisitInduction ==
  ASSUME NEW names, NEW g \in Graphs(names), NEW p, p.max \in Nat, NEW Good,
         \A v \in Visits(g, p) : (\A u \in Visits(g, p) : Before(u, v) => u \in Good) => v \in Good
  PROVE  \A v \in Visits(g, p) : v \in Good
<1>1. PICK w \in Nat : \A n \in DOMAIN g : Len(g[n]) <= w
  BY WidthExists
<1> DEFINE Bad == {v \in Visits(g, p) : v \notin Good}
           T == {Rank(w, p, v) : v \in Bad}
<1> SUFFICES ASSUME Bad # {} PROVE FALSE
  OBVIOUS
<1>2. T \subseteq Nat /\ T # {}
  <2>1. \A v \in Bad : Rank(w, p, v) \in 0 .. (p.max + 1) * (w + 1) - 1
    BY <1>1, RankGrows
  <2> QED
    BY <2>1
<1>3. PICK x \in T : \A y \in T : x <= y
  <2> HIDE DEF T
  <2> QED
    BY <1>2, Least
<1>4. PICK v \in Bad : x = Rank(w, p, v)
  BY <1>3
<1>5. PICK u \in Visits(g, p) : Before(u, v) /\ u \notin Good
  BY <1>4
<1>6. Rank(w, p, u) < Rank(w, p, v) /\ Rank(w, p, u) \in Nat /\ Rank(w, p, v) \in Nat
  <2>1. v \in Visits(g, p)
    BY <1>4
  <2>2. Rank(w, p, u) < Rank(w, p, v)
    BY <1>1, <1>5, <2>1, RankGrows
  <2>3. Rank(w, p, u) \in T
    BY <1>5
  <2> HIDE DEF T
  <2> QED
    BY <1>2, <1>3, <1>4, <2>2, <2>3
<1>7. Rank(w, p, v) <= Rank(w, p, u)
  <2>1. Rank(w, p, u) \in T
    BY <1>5
  <2> QED
    BY <2>1, <1>3, <1>4
<1> QED
  BY <1>6, <1>7

\* One step of the walk, given what it makes of the visits before.
Onward(g, p, walk, v) ==
  IF v.upto = 0 THEN [shown |-> {}, seen |-> v.seen]
  ELSE LET before == walk[[v EXCEPT !.upto = v.upto - 1]]
           place == <<v.object, v.upto>>
           n == ValAt(g, place)
           depth == v.depth + 1
       IN IF KeyAt(g, place) \in p.secret THEN before
          ELSE IF n = 0
          THEN [before EXCEPT !.shown = @ \cup IF depth < p.leafMax THEN {place} ELSE {}]
          ELSE IF n \in before.seen \/ depth >= p.max THEN before
          ELSE LET inner == walk[Visit(g, n, depth, before.seen \cup {n})]
               IN [shown |-> before.shown \cup inner.shown, seen |-> inner.seen]

Results(g) == [shown : SUBSET Entries(g), seen : SUBSET DOMAIN g]

\* The visits that a step needs: the one with an entry less, and the one of the object
\* that the last entry refers to.
LEMMA VisitsNeeded ==
  ASSUME NEW names, NEW g \in Graphs(names), NEW p, p.max \in Nat, NEW v \in Visits(g, p), v.upto # 0
  PROVE  /\ [v EXCEPT !.upto = v.upto - 1] \in Visits(g, p) /\ Before([v EXCEPT !.upto = v.upto - 1], v)
         /\ v.object \in DOMAIN g /\ v.upto \in DOMAIN g[v.object] /\ v.depth \in 0 .. p.max
         /\ v.seen \in SUBSET DOMAIN g /\ <<v.object, v.upto>> \in Entries(g)
         /\ ValAt(g, <<v.object, v.upto>>) \in {0} \cup DOMAIN g
         /\ \A n \in DOMAIN g, seen \in SUBSET DOMAIN g : v.depth + 1 < p.max =>
              /\ Visit(g, n, v.depth + 1, seen) \in Visits(g, p)
              /\ Before(Visit(g, n, v.depth + 1, seen), v)
<1>1. /\ v \in [object : DOMAIN g, upto : Nat, depth : 0 .. p.max, seen : SUBSET DOMAIN g]
      /\ v.upto <= Len(g[v.object])
  BY DEF Visits
<1>2. v.upto \in DOMAIN g[v.object] /\ Len(g[v.object]) \in Nat
  BY <1>1, GraphIs
<1>3. [v EXCEPT !.upto = v.upto - 1] \in Visits(g, p) /\ Before([v EXCEPT !.upto = v.upto - 1], v)
  <2> DEFINE u == [v EXCEPT !.upto = v.upto - 1]
  <2>1. v.upto - 1 \in Nat /\ v.upto - 1 < v.upto /\ v.upto - 1 <= Len(g[v.object])
    BY <1>1, <1>2
  <2>2. /\ u \in [object : DOMAIN g, upto : Nat, depth : 0 .. p.max, seen : SUBSET DOMAIN g]
        /\ u.upto = v.upto - 1 /\ u.object = v.object /\ u.depth = v.depth
    BY <1>1, <2>1
  <2> QED
    BY <2>1, <2>2 DEF Visits, Before
<1>4. <<v.object, v.upto>> \in Entries(g)
  BY <1>1, <1>2 DEF Entries
<1>5. ValAt(g, <<v.object, v.upto>>) \in {0} \cup DOMAIN g
  <2>1. g[v.object][v.upto].val \in 0 .. Len(g) /\ DOMAIN g = 1 .. Len(g) /\ Len(g) \in Nat
    BY <1>1, <1>2, GraphIs
  <2> QED
    BY <2>1 DEF ValAt
<1>6. ASSUME NEW n \in DOMAIN g, NEW seen \in SUBSET DOMAIN g, v.depth + 1 < p.max
      PROVE  /\ Visit(g, n, v.depth + 1, seen) \in Visits(g, p)
             /\ Before(Visit(g, n, v.depth + 1, seen), v)
  <2>1. Len(g[n]) \in Nat /\ v.depth + 1 \in 0 .. p.max /\ v.depth + 1 > v.depth
    BY <1>1, <1>6, GraphIs
  <2> QED
    BY <2>1, <1>6 DEF Visits, Visit, Before
<1> QED
  BY <1>1, <1>2, <1>3, <1>4, <1>5, <1>6

\* A step depends on the visits before only.
LEMMA OnwardAgrees ==
  ASSUME NEW names, NEW g \in Graphs(names), NEW p, p.max \in Nat, NEW v \in Visits(g, p), NEW f, NEW h,
         \A u \in Visits(g, p) : Before(u, v) => f[u] \in Results(g) /\ h[u] = f[u]
  PROVE  Onward(g, p, f, v) \in Results(g) /\ Onward(g, p, h, v) = Onward(g, p, f, v)
<1>1. CASE v.upto = 0
  <2>1. v.seen \in SUBSET DOMAIN g
    BY DEF Visits
  <2> QED
    BY <1>1, <2>1 DEF Onward, Results
<1>2. CASE v.upto # 0
  <2> DEFINE u == [v EXCEPT !.upto = v.upto - 1]
             place == <<v.object, v.upto>>
             n == ValAt(g, place)
             before == f[u]
             x == Visit(g, n, v.depth + 1, before.seen \cup {n})
             inner == f[x]
  <2>1. /\ before \in Results(g) /\ h[u] = before
        /\ place \in Entries(g) /\ n \in {0} \cup DOMAIN g
    BY <1>2, VisitsNeeded
  <2>2. before.seen \in SUBSET DOMAIN g /\ before.shown \in SUBSET Entries(g)
    BY <2>1 DEF Results
  <2>3. n # 0 /\ ~ (v.depth + 1 >= p.max) => inner \in Results(g) /\ h[x] = inner
    <3> SUFFICES ASSUME n # 0, ~ (v.depth + 1 >= p.max) PROVE inner \in Results(g) /\ h[x] = inner
      OBVIOUS
    <3>1. v.depth \in 0 .. p.max
      BY <1>2, VisitsNeeded
    <3>2. v.depth + 1 < p.max /\ n \in DOMAIN g /\ before.seen \cup {n} \in SUBSET DOMAIN g
      BY <2>1, <2>2, <3>1
    <3> HIDE DEF n, before
    <3>3. x \in Visits(g, p) /\ Before(x, v)
      BY <3>2, <1>2, VisitsNeeded
    <3> QED
      BY <3>3
  <2> DEFINE made(b, i) ==
        IF KeyAt(g, place) \in p.secret THEN b
        ELSE IF n = 0 THEN [b EXCEPT !.shown = @ \cup IF v.depth + 1 < p.leafMax THEN {place} ELSE {}]
        ELSE IF n \in b.seen \/ v.depth + 1 >= p.max THEN b
        ELSE [shown |-> b.shown \cup i.shown, seen |-> i.seen]
  <2>4. Onward(g, p, f, v) = made(before, inner)
    BY <1>2 DEF Onward
  <2>5. Onward(g, p, h, v) = made(h[u], h[Visit(g, n, v.depth + 1, h[u].seen \cup {n})])
    BY <1>2 DEF Onward
  <2>6. Onward(g, p, h, v) = made(before, h[x])
    BY <2>1, <2>5
  <2> HIDE DEF u, n, before, x, inner, place
  <2>7. made(before, h[x]) = made(before, inner)
    BY <2>3
  <2>8. made(before, inner) \in Results(g)
    <3>1. CASE KeyAt(g, place) \in p.secret
      BY <3>1, <2>1
    <3>2. CASE n = 0
      BY <3>2, <2>1, <2>2 DEF Results
    <3>3. CASE n # 0 /\ ~ (n \in before.seen \/ v.depth + 1 >= p.max)
      BY <3>3, <2>1, <2>2, <2>3 DEF Results
    <3>4. CASE n \in before.seen \/ v.depth + 1 >= p.max
      BY <3>4, <2>1, <2>2 DEF Results
    <3> QED
      BY <3>1, <3>2, <3>3, <3>4
  <2> HIDE DEF made
  <2> QED
    BY <2>4, <2>6, <2>7, <2>8
<1> QED
  BY <1>1, <1>2

\* The walk is what its definition says: it comes to an end, in any graph.
LEMMA WalkIs ==
  ASSUME NEW names, NEW g \in Graphs(names), NEW p, p.max \in Nat
  PROVE  \A v \in Visits(g, p) : /\ Walk(g, p)[v] \in Results(g)
                                 /\ Walk(g, p)[v] = Onward(g, p, Walk(g, p), v)
<1>1. PICK w \in Nat : \A n \in DOMAIN g : Len(g[n]) <= w
  BY WidthExists
<1> DEFINE K == (p.max + 1) * (w + 1)
           Under(k) == {v \in Visits(g, p) : Rank(w, p, v) < k}
           Walks(k, f) == \A v \in Under(k) : f[v] = Onward(g, p, f, v)
           T == {k \in 0 .. K : \E f \in [Under(k) -> Results(g)] : Walks(k, f)}
<1>2. K \in Nat /\ \A v \in Visits(g, p) : Rank(w, p, v) \in 0 .. K - 1
  <2>1. p.max + 1 \in Nat /\ w + 1 \in Nat
    OBVIOUS
  <2>2. \A a, b \in Nat : a * b \in Nat
    OBVIOUS
  <2>3. K \in Nat
    BY <2>1, <2>2
  <2>4. \A v \in Visits(g, p) : Rank(w, p, v) \in 0 .. (p.max + 1) * (w + 1) - 1
    BY <1>1, RankGrows
  <2> QED
    BY <2>3, <2>4
<1>3. \A u, v \in Visits(g, p) : Before(u, v) => Rank(w, p, u) < Rank(w, p, v)
  BY <1>1, RankGrows
<1> HIDE DEF K
<1>4. 0 \in T
  <2>1. Under(0) = {}
    BY <1>2
  <2> DEFINE f == [v \in Under(0) |-> [shown |-> {}, seen |-> {}]]
  <2>2. f \in [Under(0) -> Results(g)] /\ Walks(0, f)
    BY <2>1
  <2> HIDE DEF f, Walks
  <2>3. \E e \in [Under(0) -> Results(g)] : Walks(0, e)
    BY <2>2
  <2> QED
    BY <1>2, <2>3
<1>5. ASSUME NEW k \in 1 .. K, k - 1 \in T PROVE k \in T
  <2>1. PICK f \in [Under(k - 1) -> Results(g)] : Walks(k - 1, f)
    BY <1>5
  <2> DEFINE h == [v \in Under(k) |-> IF v \in Under(k - 1) THEN f[v] ELSE Onward(g, p, f, v)]
  <2>2. \A v \in Under(k) : \A u \in Visits(g, p) : Before(u, v) => u \in Under(k - 1) /\ u \in Under(k)
    <3> SUFFICES ASSUME NEW v \in Under(k), NEW u \in Visits(g, p), Before(u, v)
                 PROVE  Rank(w, p, u) < k - 1 /\ Rank(w, p, u) < k
      OBVIOUS
    <3>1. Rank(w, p, u) < Rank(w, p, v) /\ Rank(w, p, v) < k
      BY <1>3
    <3>2. Rank(w, p, u) \in Int /\ Rank(w, p, v) \in Int /\ k \in Int
      BY <1>2
    <3> QED
      BY <3>1, <3>2
  <2>3. \A v \in Under(k) : \A u \in Visits(g, p) : Before(u, v) => f[u] \in Results(g) /\ h[u] = f[u]
    BY <2>2
  <2>4. \A v \in Under(k) : Onward(g, p, f, v) \in Results(g) /\ Onward(g, p, h, v) = Onward(g, p, f, v)
    <3> HIDE DEF h
    <3> TAKE v \in Under(k)
    <3>1. v \in Visits(g, p)
      OBVIOUS
    <3> QED
      BY <2>3, <3>1, OnwardAgrees
  <2>5. \A v \in Under(k) : h[v] = Onward(g, p, f, v)
    BY <2>1
  <2>6. Walks(k, h)
    BY <2>4, <2>5
  <2>7. h \in [Under(k) -> Results(g)]
    <3>1. \A v \in Under(k) : h[v] \in Results(g)
      BY <2>4, <2>5
    <3>2. h = [v \in Under(k) |-> h[v]]
      OBVIOUS
    <3> HIDE DEF h
    <3> QED
      BY <3>1, <3>2
  <2> HIDE DEF h, Walks
  <2>8. \E e \in [Under(k) -> Results(g)] : Walks(k, e)
    BY <2>6, <2>7
  <2>9. k \in 0 .. K
    BY <1>2
  <2> HIDE DEF Under
  <2> QED
    BY <2>8, <2>9
<1>6. PICK f \in [Visits(g, p) -> Results(g)] : \A v \in Visits(g, p) : f[v] = Onward(g, p, f, v)
  <2>1. \A k \in 0 .. K : k \in T
    <3> HIDE DEF T
    <3> QED
      BY <1>2, <1>4, <1>5, UpTo
  <2>2. PICK f \in [Under(K) -> Results(g)] : Walks(K, f)
    <3>1. K \in T
      <4> HIDE DEF T
      <4> QED
        BY <1>2, <2>1
    <3> QED
      BY <3>1
  <2>3. Under(K) = Visits(g, p)
    BY <1>2
  <2> QED
    BY <2>2, <2>3
<1> DEFINE Follows(e) == e = [v \in Visits(g, p) |-> Onward(g, p, e, v)]
<1>7. Follows(f)
  BY <1>6
<1>8. Walk(g, p) = CHOOSE e : Follows(e)
  BY DEF Walk, Onward
<1>9. Follows(Walk(g, p))
  <2> HIDE DEF Follows
  <2> QED
    BY <1>7, <1>8
<1>10. \A v \in Visits(g, p) : Walk(g, p)[v] = Onward(g, p, Walk(g, p), v)
  BY <1>9
<1> DEFINE Good == {v \in Visits(g, p) : Walk(g, p)[v] \in Results(g)}
<1>11. \A v \in Visits(g, p) : (\A u \in Visits(g, p) : Before(u, v) => u \in Good) => v \in Good
  <2> SUFFICES ASSUME NEW v \in Visits(g, p), \A u \in Visits(g, p) : Before(u, v) => u \in Good
               PROVE  Walk(g, p)[v] \in Results(g)
    OBVIOUS
  <2> DEFINE W == Walk(g, p)
  <2>1. \A u \in Visits(g, p) : Before(u, v) => W[u] \in Results(g) /\ W[u] = W[u]
    OBVIOUS
  <2>2. W[v] = Onward(g, p, W, v)
    BY <1>10
  <2> HIDE DEF W
  <2>3. Onward(g, p, W, v) \in Results(g)
    BY <2>1, OnwardAgrees
  <2> QED
    BY <2>2, <2>3 DEF W
<1>12. \A v \in Visits(g, p) : v \in Good
  <2> HIDE DEF Good
  <2> QED
    BY <1>11, VisitInduction
<1> QED
  BY <1>10, <1>12

\* What is reached by one entry more.
Further(g, secret, met) ==
  met \cup ({ValAt(g, e) : e \in {e \in Entries(g) : e[1] \in met /\ KeyAt(g, e) \notin secret}} \ {0})

LEMMA ReachIs ==
  ASSUME NEW names, NEW g \in Graphs(names), NEW secret
  PROVE  /\ Reach(g, secret)[0] = {1}
         /\ \A n \in 1 .. Len(g) : Reach(g, secret)[n] = Further(g, secret, Reach(g, secret)[n - 1])
<1> DEFINE N == Len(g)
           More(m) == Further(g, secret, m)
           Runs(n, f) == DOMAIN f = 0 .. n /\ f[0] = {1} /\ \A i \in 1 .. n : f[i] = More(f[i - 1])
           T == {n \in 0 .. N : \E f : Runs(n, f)}
           Follows(f) == f = [n \in 0 .. Len(g) |-> IF n = 0 THEN {1} ELSE More(f[n - 1])]
<1>1. N \in Nat
  BY GraphIs
<1> HIDE DEF N, More
<1>2. 0 \in T
  <2> DEFINE f == [i \in 0 .. 0 |-> {1}]
  <2>1. Runs(0, f)
    OBVIOUS
  <2> HIDE DEF f, Runs
  <2>2. \E e : Runs(0, e)
    BY <2>1
  <2> QED
    BY <1>1, <2>2
<1>3. ASSUME NEW n \in 1 .. N, n - 1 \in T PROVE n \in T
  <2>1. PICK f : Runs(n - 1, f)
    BY <1>3
  <2> DEFINE h == [i \in 0 .. n |-> IF i = n THEN More(f[n - 1]) ELSE f[i]]
  <2>2. n \in Nat /\ n # 0 /\ \A i \in 1 .. n : i = n \/ i \in 1 .. n - 1
    BY <1>1
  <2>3. h[0] = {1} /\ \A i \in 1 .. n : h[i] = More(f[i - 1]) /\ h[i - 1] = f[i - 1]
    BY <2>1, <2>2
  <2>4. Runs(n, h)
    BY <2>3
  <2> HIDE DEF Runs, h
  <2>5. \E e : Runs(n, e)
    BY <2>4
  <2>6. n \in 0 .. N
    BY <1>1
  <2> QED
    BY <2>5, <2>6
<1>4. PICK f : Runs(N, f)
  <2>1. \A n \in 0 .. N : n \in T
    <3> HIDE DEF T
    <3> QED
      BY <1>1, <1>2, <1>3, UpTo
  <2>2. N \in T
    <3> HIDE DEF T
    <3> QED
      BY <1>1, <2>1
  <2> QED
    BY <2>2
<1>5. \E e : Follows(e)
  <2> DEFINE e == [n \in 0 .. N |-> f[n]]
  <2>1. \A n \in 0 .. N : f[n] = IF n = 0 THEN {1} ELSE More(f[n - 1])
    BY <1>1, <1>4
  <2>2. \A n \in 0 .. N : n # 0 => n - 1 \in 0 .. N
    BY <1>1
  <2>3. \A n \in 0 .. N : e[n] = IF n = 0 THEN {1} ELSE More(e[n - 1])
    BY <2>1, <2>2
  <2>4. Follows(e)
    BY <2>3 DEF N
  <2> HIDE DEF e, Follows
  <2> QED
    BY <2>4
<1>6. Reach(g, secret) = CHOOSE e : Follows(e)
  BY DEF Reach, Further, More
<1>7. Follows(Reach(g, secret))
  <2> HIDE DEF Follows
  <2> QED
    BY <1>5, <1>6
<1>8. \A n \in 0 .. N : Reach(g, secret)[n] = IF n = 0 THEN {1} ELSE More(Reach(g, secret)[n - 1])
  BY <1>7 DEF N
<1>9. 0 \in 0 .. N /\ \A n \in 1 .. N : n \in 0 .. N /\ n # 0
  BY <1>1
<1> QED
  BY <1>8, <1>9 DEF More, N

\* An open entry leads one step further; and whatever holds the root and is closed under
\* open entries holds all that is reached.
LEMMA ReachGrows ==
  ASSUME NEW names, NEW g \in Graphs(names), NEW secret
  PROVE  /\ Len(g) \in Nat
         /\ 1 \in Reach(g, secret)[0]
         /\ \A n \in 1 .. Len(g) : Reach(g, secret)[n - 1] \subseteq Reach(g, secret)[n]
         /\ \A n \in 1 .. Len(g) : \A e \in Entries(g) :
              e[1] \in Reach(g, secret)[n - 1] /\ KeyAt(g, e) \notin secret /\ ValAt(g, e) # 0
                => ValAt(g, e) \in Reach(g, secret)[n]
BY ReachIs, GraphIs DEF Further

LEMMA ReachLast ==
  ASSUME NEW names, NEW g \in Graphs(names), NEW secret, NEW n \in 0 .. Len(g)
  PROVE  Reach(g, secret)[n] \subseteq Reach(g, secret)[Len(g)]
<1> DEFINE R == Reach(g, secret)
           N == Len(g)
           T == {k \in 0 .. N - n : R[n] \subseteq R[n + k]}
<1>1. N \in Nat /\ n \in 0 .. N /\ N - n \in Nat
  BY GraphIs
<1>2. \A k \in 1 .. N : R[k - 1] \subseteq R[k]
  BY ReachGrows
<1> HIDE DEF R, N
<1>3. 0 \in T
  BY <1>1
<1>4. ASSUME NEW k \in 1 .. N - n, k - 1 \in T PROVE k \in T
  <2>1. n + k \in 1 .. N /\ n + (k - 1) = (n + k) - 1 /\ k \in 0 .. N - n
    BY <1>1
  <2>2. R[n] \subseteq R[n + (k - 1)]
    BY <1>4
  <2>3. R[n + (k - 1)] \subseteq R[n + k]
    BY <1>2, <2>1
  <2> QED
    BY <2>1, <2>2, <2>3
<1>5. N - n \in T
  <2> DEFINE m == N - n
  <2>1. m \in Nat /\ 0 \in T /\ \A k \in 1 .. m : k - 1 \in T => k \in T
    BY <1>1, <1>3, <1>4
  <2>2. m \in 0 .. m
    BY <2>1
  <2> HIDE DEF T, m
  <2>3. m \in T
    BY <2>1, <2>2, UpTo
  <2> QED
    BY <2>3 DEF m
<1>6. n + (N - n) = N
  BY <1>1
<1> QED
  BY <1>5, <1>6 DEF R, N

LEMMA ReachClosed ==
  ASSUME NEW names, NEW g \in Graphs(names), NEW secret, NEW S, 1 \in S,
         \A e \in Entries(g) : e[1] \in S /\ KeyAt(g, e) \notin secret /\ ValAt(g, e) # 0
           => ValAt(g, e) \in S
  PROVE  Reach(g, secret)[Len(g)] \subseteq S
<1> DEFINE R == Reach(g, secret)
           N == Len(g)
           T == {k \in 0 .. N : R[k] \subseteq S}
<1>1. N \in Nat /\ R[0] = {1} /\ \A k \in 1 .. N : R[k] = Further(g, secret, R[k - 1])
  BY GraphIs, ReachIs
<1> HIDE DEF R, N
<1>2. 0 \in T
  BY <1>1
<1>3. ASSUME NEW k \in 1 .. N, k - 1 \in T PROVE k \in T
  <2>1. R[k - 1] \subseteq S /\ k \in 0 .. N
    BY <1>1, <1>3
  <2>2. R[k] \subseteq S
    BY <1>1, <2>1 DEF Further
  <2> QED
    BY <2>1, <2>2
<1>4. N \in T
  <2> HIDE DEF T
  <2> QED
    BY <1>1, <1>2, <1>3, UpTo
<1> QED
  BY <1>4 DEF R, N

\* The objects seen are enough for the depth: each was another one.
LEMMA SeenFits ==
  ASSUME NEW names, NEW g \in Graphs(names), NEW S, S \in SUBSET DOMAIN g
  PROVE  /\ IsFiniteSet(S) /\ Cardinality(S) \in 0 .. Len(g)
         /\ \A T \in SUBSET S : Cardinality(T) <= Cardinality(S) /\ Cardinality(T) \in Nat
         /\ \A x : x \notin S => Cardinality(S \cup {x}) = Cardinality(S) + 1
<1>1. DOMAIN g = 1 .. Len(g) /\ Len(g) \in Nat
  BY GraphIs
<1>2. IsFiniteSet(1 .. Len(g)) /\ Cardinality(1 .. Len(g)) = Len(g)
  BY <1>1, FS_Interval
<1>3. IsFiniteSet(S) /\ Cardinality(S) <= Len(g)
  BY <1>1, <1>2, FS_Subset
<1>4. Cardinality(S) \in Nat
  BY <1>3, FS_CardinalityType
<1>5. \A T \in SUBSET S : Cardinality(T) <= Cardinality(S) /\ Cardinality(T) \in Nat
  BY <1>3, FS_Subset, FS_CardinalityType
<1>6. \A x : x \notin S => Cardinality(S \cup {x}) = Cardinality(S) + 1
  BY <1>3, FS_AddElement
<1> QED
  BY <1>1, <1>3, <1>4, <1>5, <1>6

\* A visit that the walk really makes: its object was reached, by as many entries as the
\* depth says, and for each of them an object was seen.
Near(g, p, v) == v.depth <= Cardinality(v.seen) /\ v.object \in Reach(g, p.secret)[v.depth]

\* What is shown of it may be seen by a reader.
LEMMA WalkIsSound ==
  ASSUME NEW names, NEW g \in Graphs(names), NEW p, p.max \in Nat
  PROVE  \A v \in Visits(g, p) : Near(g, p, v) =>
           Walk(g, p)[v].shown \subseteq Public(g, p.secret) /\ v.seen \subseteq Walk(g, p)[v].seen
<1> DEFINE W == Walk(g, p)
           R == Reach(g, p.secret)
           Good == {v \in Visits(g, p) : Near(g, p, v) =>
                      W[v].shown \subseteq Public(g, p.secret) /\ v.seen \subseteq W[v].seen}
<1>1. ASSUME NEW v \in Visits(g, p), \A u \in Visits(g, p) : Before(u, v) => u \in Good,
             Near(g, p, v)
      PROVE  W[v].shown \subseteq Public(g, p.secret) /\ v.seen \subseteq W[v].seen
  <2>1. W[v] = Onward(g, p, W, v)
    BY WalkIs
  <2>2. CASE v.upto = 0
    BY <2>1, <2>2 DEF Onward
  <2>3. CASE v.upto # 0
    <3> DEFINE u == [v EXCEPT !.upto = v.upto - 1]
               place == <<v.object, v.upto>>
               n == ValAt(g, place)
               before == W[u]
               x == Visit(g, n, v.depth + 1, before.seen \cup {n})
    <3>1. /\ u \in Visits(g, p) /\ Before(u, v)
          /\ place \in Entries(g) /\ n \in {0} \cup DOMAIN g
          /\ v.depth \in 0 .. p.max /\ v.seen \in SUBSET DOMAIN g
      BY <2>3, VisitsNeeded
    <3>2. before \in Results(g) /\ before.seen \in SUBSET DOMAIN g
      BY <3>1, WalkIs DEF Results
    <3>3. u.object = v.object /\ u.depth = v.depth /\ u.seen = v.seen
      BY DEF Visits
    <3>4. Near(g, p, u)
      BY <1>1, <3>3 DEF Near
    <3>5. before.shown \subseteq Public(g, p.secret) /\ v.seen \subseteq before.seen
      BY <1>1, <3>1, <3>3, <3>4
    <3>6. /\ Cardinality(v.seen) \in Nat /\ Cardinality(before.seen) \in Nat
          /\ Cardinality(v.seen) <= Cardinality(before.seen)
          /\ Cardinality(before.seen) <= Len(g) /\ Len(g) \in Nat
      <4>1. Cardinality(before.seen) \in 0 .. Len(g) /\ Len(g) \in Nat
        BY <3>2, SeenFits, GraphIs
      <4>2. v.seen \in SUBSET before.seen
        BY <3>5
      <4>3. Cardinality(v.seen) <= Cardinality(before.seen) /\ Cardinality(v.seen) \in Nat
        BY <3>2, <4>2, SeenFits
      <4> QED
        BY <4>1, <4>3
    <3>7. v.depth \in 0 .. Len(g) /\ v.object \in R[v.depth]
      BY <1>1, <3>1, <3>6 DEF Near
    <3>8. KeyAt(g, place) \notin p.secret /\ n = 0 => place \in Public(g, p.secret)
      <4>1. v.object \in R[Len(g)]
        BY <3>7, ReachLast
      <4> QED
        BY <3>1, <4>1 DEF Public
    <3>9. ASSUME KeyAt(g, place) \notin p.secret, n # 0, n \notin before.seen, v.depth + 1 < p.max
          PROVE  W[x].shown \subseteq Public(g, p.secret) /\ before.seen \cup {n} \subseteq W[x].seen
      <4>1. n \in DOMAIN g /\ before.seen \cup {n} \in SUBSET DOMAIN g
        BY <3>1, <3>2, <3>9
      <4>2. x \in Visits(g, p) /\ Before(x, v)
        <5> HIDE DEF n, before
        <5> QED
          BY <2>3, <3>9, <4>1, VisitsNeeded
      <4>3. x.object = n /\ x.depth = v.depth + 1 /\ x.seen = before.seen \cup {n}
        BY DEF Visit
      <4>4. Cardinality(before.seen \cup {n}) = Cardinality(before.seen) + 1
        BY <3>2, <3>9, SeenFits
      <4>5. Cardinality(before.seen \cup {n}) <= Len(g)
        BY <4>1, <3>6, SeenFits
      <4>6. v.depth + 1 <= Cardinality(x.seen) /\ v.depth + 1 \in 1 .. Len(g)
        <5>1. v.depth <= Cardinality(v.seen) /\ v.depth \in Nat
          BY <1>1, <3>1 DEF Near
        <5>2. Cardinality(x.seen) = Cardinality(before.seen) + 1 /\ Cardinality(x.seen) <= Len(g)
          BY <4>3, <4>4, <4>5
        <5> HIDE DEF x, before
        <5> QED
          BY <5>1, <5>2, <3>6
      <4>7. n \in R[v.depth + 1]
        <5>1. (v.depth + 1) - 1 = v.depth /\ place[1] = v.object
          BY <3>1
        <5> HIDE DEF n, place
        <5>2. place[1] \in R[(v.depth + 1) - 1]
          BY <3>7, <5>1
        <5> QED
          BY <3>1, <3>9, <4>6, <5>2, ReachGrows DEF n
      <4>8. Near(g, p, x)
        BY <4>3, <4>6, <4>7 DEF Near
      <4> HIDE DEF x
      <4> QED
        BY <1>1, <4>2, <4>3, <4>8
    <3>10. W[v] = IF KeyAt(g, place) \in p.secret THEN before
                  ELSE IF n = 0
                  THEN [before EXCEPT !.shown = @ \cup IF v.depth + 1 < p.leafMax THEN {place} ELSE {}]
                  ELSE IF n \in before.seen \/ v.depth + 1 >= p.max THEN before
                  ELSE [shown |-> before.shown \cup W[x].shown, seen |-> W[x].seen]
      BY <2>1, <2>3 DEF Onward
    <3>11. v.depth + 1 >= p.max \/ v.depth + 1 < p.max
      BY <3>1
    <3> HIDE DEF u, x, n, before, place
    <3>12. CASE KeyAt(g, place) \in p.secret
      BY <3>5, <3>10, <3>12
    <3>13. CASE KeyAt(g, place) \notin p.secret /\ n = 0
      BY <3>2, <3>5, <3>8, <3>10, <3>13 DEF Results
    <3>14. CASE KeyAt(g, place) \notin p.secret /\ n # 0 /\ (n \in before.seen \/ v.depth + 1 >= p.max)
      BY <3>5, <3>10, <3>14
    <3>15. CASE KeyAt(g, place) \notin p.secret /\ n # 0 /\ ~ (n \in before.seen \/ v.depth + 1 >= p.max)
      BY <3>5, <3>9, <3>10, <3>11, <3>15
    <3> QED
      BY <3>12, <3>13, <3>14, <3>15
  <2> QED
    BY <2>2, <2>3
<1>2. \A v \in Visits(g, p) : (\A u \in Visits(g, p) : Before(u, v) => u \in Good) => v \in Good
  <2> SUFFICES ASSUME NEW v \in Visits(g, p), \A u \in Visits(g, p) : Before(u, v) => u \in Good
               PROVE  v \in Good
    OBVIOUS
  <2>1. Near(g, p, v) => W[v].shown \subseteq Public(g, p.secret) /\ v.seen \subseteq W[v].seen
    <3> HIDE DEF Good, W
    <3> QED
      BY <1>1
  <2> QED
    BY <2>1
<1>3. \A v \in Visits(g, p) : v \in Good
  <2> HIDE DEF Good
  <2> QED
    BY <1>2, VisitInduction
<1> QED
  BY <1>3

\* What a walk says of an entry: a primitive is shown, an object was seen.
Told(g, p, e, r) ==
  KeyAt(g, e) \notin p.secret => IF ValAt(g, e) = 0 THEN e \in r.shown ELSE ValAt(g, e) \in r.seen

\* A visit that the depth does not cut: D are the objects that entries refer to, and each
\* object on the way but c was seen.
Roomy(D, c, v) == v.seen \subseteq D /\ v.depth + 1 <= Cardinality(v.seen) + c

\* All is told of the entries visited and of the objects seen on the way.
AllTold(g, p, D, v, r) ==
  /\ v.seen \subseteq r.seen /\ r.seen \subseteq D
  /\ \A e \in Entries(g) :
       (e[1] = v.object /\ e[2] <= v.upto) \/ e[1] \in r.seen \ v.seen => Told(g, p, e, r)

LEMMA WalkIsComplete ==
  ASSUME NEW names, NEW g \in Graphs(names), NEW p, p.max \in Nat, p.leafMax \in Nat,
         NEW D, D \subseteq DOMAIN g, NEW c \in Nat,
         \A e \in Entries(g) : ValAt(g, e) # 0 => ValAt(g, e) \in D,
         Cardinality(D) + c <= p.max, Cardinality(D) + c < p.leafMax
  PROVE  \A v \in Visits(g, p) : Roomy(D, c, v) => AllTold(g, p, D, v, Walk(g, p)[v])
<1> DEFINE W == Walk(g, p)
           Good == {v \in Visits(g, p) : Roomy(D, c, v) => AllTold(g, p, D, v, W[v])}
<1>1. ASSUME NEW v \in Visits(g, p), \A u \in Visits(g, p) : Before(u, v) => u \in Good,
             Roomy(D, c, v)
      PROVE  AllTold(g, p, D, v, W[v])
  <2>1. W[v] = Onward(g, p, W, v)
    BY WalkIs
  <2>2. CASE v.upto = 0
    <3>1. W[v] = [shown |-> {}, seen |-> v.seen]
      BY <2>1, <2>2 DEF Onward
    <3>2. \A e \in Entries(g) : e[2] \in Nat /\ e[2] > 0
      BY EntriesAre
    <3>3. W[v].seen = v.seen /\ v.seen \subseteq D
      BY <1>1, <3>1 DEF Roomy
    <3> HIDE DEF W
    <3> QED
      BY <2>2, <3>2, <3>3 DEF AllTold
  <2>3. CASE v.upto # 0
    <3> DEFINE u == [v EXCEPT !.upto = v.upto - 1]
               place == <<v.object, v.upto>>
               n == ValAt(g, place)
               before == W[u]
               x == Visit(g, n, v.depth + 1, before.seen \cup {n})
    <3>1. /\ u \in Visits(g, p) /\ Before(u, v)
          /\ place \in Entries(g) /\ n \in {0} \cup DOMAIN g
          /\ v.depth \in 0 .. p.max /\ v.seen \in SUBSET DOMAIN g
          /\ v.object \in DOMAIN g /\ v.upto \in Nat
      <4>1. v.upto \in Nat
        BY DEF Visits
      <4> QED
        BY <2>3, <4>1, VisitsNeeded
    <3>2. before \in Results(g) /\ before.seen \in SUBSET DOMAIN g
      BY <3>1, WalkIs DEF Results
    <3>3. u.object = v.object /\ u.depth = v.depth /\ u.seen = v.seen /\ u.upto = v.upto - 1
      BY DEF Visits
    <3>4. Roomy(D, c, u)
      BY <1>1, <3>3 DEF Roomy
    <3>5. AllTold(g, p, D, u, before)
      BY <1>1, <3>1, <3>4
    <3>6. v.seen \subseteq before.seen /\ before.seen \subseteq D
      BY <3>3, <3>5 DEF AllTold
    <3>7. /\ Cardinality(D) \in Nat /\ Cardinality(before.seen) \in Nat /\ Cardinality(v.seen) \in Nat
          /\ Cardinality(v.seen) <= Cardinality(before.seen)
          /\ Cardinality(before.seen) <= Cardinality(D)
      <4>1. D \in SUBSET DOMAIN g /\ before.seen \in SUBSET D /\ v.seen \in SUBSET before.seen
        BY <3>6
      <4>2. Cardinality(before.seen) <= Cardinality(D) /\ Cardinality(before.seen) \in Nat
        BY <4>1, SeenFits
      <4>3. Cardinality(D) \in 0 .. Len(g) /\ Len(g) \in Nat
        BY <4>1, SeenFits, GraphIs
      <4>4. Cardinality(v.seen) <= Cardinality(before.seen) /\ Cardinality(v.seen) \in Nat
        BY <3>2, <4>1, SeenFits
      <4> QED
        BY <4>2, <4>3, <4>4
    <3>8. v.depth + 1 <= Cardinality(v.seen) + c /\ v.depth \in Nat
      BY <1>1, <3>1 DEF Roomy
    <3>9. v.depth + 1 < p.leafMax
      BY <3>7, <3>8
    <3>10. ASSUME n # 0, n \notin before.seen
           PROVE  /\ ~ (v.depth + 1 >= p.max)
                  /\ before.seen \cup {n} \subseteq D /\ AllTold(g, p, D, x, W[x])
                  /\ x.object = n /\ x.upto = Len(g[n]) /\ x.seen = before.seen \cup {n}
      <4>1. n \in DOMAIN g /\ before.seen \cup {n} \in SUBSET DOMAIN g /\ before.seen \cup {n} \in SUBSET D
        BY <3>1, <3>2, <3>6, <3>10
      <4>2. Cardinality(before.seen \cup {n}) = Cardinality(before.seen) + 1
        BY <3>2, <3>10, SeenFits
      <4>3. Cardinality(before.seen \cup {n}) <= Cardinality(D)
        <5>1. D \in SUBSET DOMAIN g
          OBVIOUS
        <5> HIDE DEF n, before
        <5> QED
          BY <4>1, <5>1, SeenFits
      <4>4. v.depth + 1 < p.max
        <5> HIDE DEF n, before
        <5> QED
          BY <3>7, <3>8, <4>2, <4>3
      <4>5. x \in Visits(g, p) /\ Before(x, v)
        <5> HIDE DEF n, before
        <5> QED
          BY <2>3, <4>1, <4>4, VisitsNeeded
      <4>6. x.object = n /\ x.upto = Len(g[n]) /\ x.depth = v.depth + 1 /\ x.seen = before.seen \cup {n}
        BY DEF Visit
      <4> HIDE DEF x, n, before
      <4>7. Roomy(D, c, x)
        BY <3>7, <3>8, <4>1, <4>2, <4>6 DEF Roomy
      <4>8. AllTold(g, p, D, x, W[x])
        BY <1>1, <4>5, <4>7
      <4>9. v.depth + 1 \in Nat
        BY <3>8
      <4> QED
        BY <4>1, <4>4, <4>6, <4>8, <4>9
    <3>11. W[v] = IF KeyAt(g, place) \in p.secret THEN before
                  ELSE IF n = 0
                  THEN [before EXCEPT !.shown = @ \cup IF v.depth + 1 < p.leafMax THEN {place} ELSE {}]
                  ELSE IF n \in before.seen \/ v.depth + 1 >= p.max THEN before
                  ELSE [shown |-> before.shown \cup W[x].shown, seen |-> W[x].seen]
      BY <2>1, <2>3 DEF Onward
    <3>12. \A e \in Entries(g) : e[1] = v.object /\ e[2] <= v.upto =>
              e = place \/ (e[1] = u.object /\ e[2] <= u.upto)
      <4> SUFFICES ASSUME NEW e \in Entries(g), e[1] = v.object, e[2] <= v.upto, ~ (e[2] <= v.upto - 1)
                   PROVE  e = place
        BY <3>3
      <4>1. e = <<e[1], e[2]>> /\ e[2] \in Nat
        BY EntriesAre
      <4>2. e[2] = v.upto
        BY <3>1, <4>1
      <4> QED
        BY <4>1, <4>2
    <3>13. ASSUME NEW r, before.shown \subseteq r.shown, before.seen \subseteq r.seen, r.seen \subseteq D,
                  Told(g, p, place, r),
                  \A e \in Entries(g) : e[1] \in r.seen \ before.seen => Told(g, p, e, r)
           PROVE  AllTold(g, p, D, v, r)
      <4> HIDE DEF before, place, n, u, x
      <4>1. \A e \in Entries(g) : Told(g, p, e, before) => Told(g, p, e, r)
        BY <3>13 DEF Told
      <4>2. ASSUME NEW e \in Entries(g), (e[1] = v.object /\ e[2] <= v.upto) \/ e[1] \in r.seen \ v.seen
            PROVE  Told(g, p, e, r)
        <5>1. CASE e = place
          BY <5>1, <3>13
        <5>2. CASE (e[1] = u.object /\ e[2] <= u.upto) \/ e[1] \in before.seen \ u.seen
          BY <5>2, <3>5, <4>1 DEF AllTold
        <5>3. CASE e[1] \in r.seen \ before.seen
          BY <5>3, <3>13
        <5> QED
          BY <4>2, <5>1, <5>2, <5>3, <3>3, <3>12
      <4> QED
        BY <3>6, <3>13, <4>2 DEF AllTold
    <3> HIDE DEF u, x, n, before, place
    <3>14. CASE KeyAt(g, place) \in p.secret
      <4>1. Told(g, p, place, before)
        BY <3>14 DEF Told
      <4> QED
        BY <3>6, <3>11, <3>13, <3>14, <4>1
    <3>15. CASE KeyAt(g, place) \notin p.secret /\ n = 0
      <4> DEFINE r == [before EXCEPT !.shown = @ \cup {place}]
      <4>1. W[v] = r
        BY <3>9, <3>11, <3>15
      <4>2. r.shown = before.shown \cup {place} /\ r.seen = before.seen
        BY <3>2 DEF Results
      <4> HIDE DEF r
      <4>3. Told(g, p, place, r)
        BY <4>2, <3>15 DEF Told, n
      <4>4. AllTold(g, p, D, v, r)
        BY <3>6, <3>13, <4>2, <4>3
      <4> QED
        BY <4>1, <4>4
    <3>16. CASE KeyAt(g, place) \notin p.secret /\ n # 0 /\ n \in before.seen
      <4>1. Told(g, p, place, before)
        BY <3>16 DEF Told, n
      <4> QED
        BY <3>6, <3>11, <3>13, <3>16, <4>1
    <3>17. CASE KeyAt(g, place) \notin p.secret /\ n # 0 /\ n \notin before.seen
      <4> DEFINE r == [shown |-> before.shown \cup W[x].shown, seen |-> W[x].seen]
      <4>1. W[v] = r
        BY <3>10, <3>11, <3>17
      <4>2. r.shown = before.shown \cup W[x].shown /\ r.seen = W[x].seen
        OBVIOUS
      <4> HIDE DEF r
      <4>3. AllTold(g, p, D, x, W[x]) /\ x.object = n /\ x.upto = Len(g[n]) /\ x.seen = before.seen \cup {n}
        BY <3>10, <3>17
      <4>4. before.seen \cup {n} \subseteq r.seen /\ r.seen \subseteq D
        BY <4>2, <4>3 DEF AllTold
      <4>5. Told(g, p, place, r)
        BY <4>4, <3>17 DEF Told, n
      <4>6. ASSUME NEW e \in Entries(g), e[1] \in r.seen \ before.seen PROVE Told(g, p, e, r)
        <5>1. e[1] \in DOMAIN g /\ e[2] <= Len(g[e[1]])
          BY EntriesAre
        <5>2. (e[1] = x.object /\ e[2] <= x.upto) \/ e[1] \in W[x].seen \ x.seen
          BY <4>2, <4>3, <4>6, <5>1
        <5>3. Told(g, p, e, W[x])
          BY <4>3, <5>2 DEF AllTold
        <5> QED
          BY <4>2, <5>3 DEF Told
      <4>7. before.shown \subseteq r.shown
        BY <4>2
      <4>8. AllTold(g, p, D, v, r)
        BY <3>13, <4>4, <4>5, <4>6, <4>7
      <4> QED
        BY <4>1, <4>8
    <3> QED
      BY <3>14, <3>15, <3>16, <3>17
  <2> QED
    BY <2>2, <2>3
<1>2. \A v \in Visits(g, p) : (\A u \in Visits(g, p) : Before(u, v) => u \in Good) => v \in Good
  <2> SUFFICES ASSUME NEW v \in Visits(g, p), \A u \in Visits(g, p) : Before(u, v) => u \in Good
               PROVE  v \in Good
    OBVIOUS
  <2>1. Roomy(D, c, v) => AllTold(g, p, D, v, W[v])
    <3> HIDE DEF Good, W
    <3> QED
      BY <1>1
  <2> QED
    BY <2>1
<1>3. \A v \in Visits(g, p) : v \in Good
  <2> HIDE DEF Good
  <2> QED
    BY <1>2, VisitInduction
<1> QED
  BY <1>3

\* The visit of the root.
Start(g, p) == Visit(g, 1, 0, IF p.copied THEN {} ELSE {1})

LEMMA ShownIs ==
  ASSUME NEW names, NEW g \in Graphs(names), NEW p, p.max \in Nat
  PROVE  IF g = <<>> \/ p.max = 0 THEN Shown(g, p) = {}
         ELSE /\ Shown(g, p) = Walk(g, p)[Start(g, p)].shown
              /\ Start(g, p) \in Visits(g, p) /\ 1 \in DOMAIN g
              /\ Start(g, p).object = 1 /\ Start(g, p).upto = Len(g[1]) /\ Start(g, p).depth = 0
              /\ Start(g, p).seen = IF p.copied THEN {} ELSE {1}
<1>1. Len(g) \in Nat /\ DOMAIN g = 1 .. Len(g)
  BY GraphIs
<1>2. ASSUME g # <<>> PROVE 1 \in DOMAIN g
  <2>1. g \in Seq(Seq([key : names, val : Nat]))
    BY DEF Graphs
  <2>2. Len(g) # 0
    BY <1>2, <2>1, EmptySeq
  <2> QED
    BY <1>1, <2>2
<1>3. ASSUME g # <<>> PROVE Len(g[1]) \in Nat
  BY <1>2, <1>3, GraphIs
<1> QED
  BY <1>2, <1>3 DEF Shown, Start, Visit, Visits

\* Nothing is shown but what a reader may see.
LEMMA ShownIsPublic ==
  ASSUME NEW names, NEW g \in Graphs(names), NEW p, p.max \in Nat
  PROVE  Shown(g, p) \subseteq Public(g, p.secret)
<1>1. CASE g = <<>> \/ p.max = 0
  BY <1>1, ShownIs
<1>2. CASE ~ (g = <<>> \/ p.max = 0)
  <2> DEFINE v == Start(g, p)
  <2>1. /\ Shown(g, p) = Walk(g, p)[v].shown /\ v \in Visits(g, p)
        /\ v.object = 1 /\ v.depth = 0 /\ v.seen \in SUBSET DOMAIN g
    BY <1>2, ShownIs
  <2> HIDE DEF v
  <2>2. Cardinality(v.seen) \in 0 .. Len(g) /\ Len(g) \in Nat
    BY <2>1, SeenFits, GraphIs
  <2>3. Near(g, p, v)
    BY <2>1, <2>2, ReachGrows DEF Near
  <2> QED
    BY <2>1, <2>3, WalkIsSound
<1> QED
  BY <1>1, <1>2

\* All of it is, when the depth suffices for the objects that are referred to.
LEMMA PublicIsShown ==
  ASSUME NEW names, NEW g \in Graphs(names), NEW p, p.max \in Nat, p.leafMax \in Nat, p.max # 0,
         NEW D, D \subseteq DOMAIN g, NEW c \in Nat,
         \A e \in Entries(g) : ValAt(g, e) # 0 => ValAt(g, e) \in D,
         Cardinality(D) + c <= p.max, Cardinality(D) + c < p.leafMax,
         IF p.copied THEN c = 1 ELSE g # <<>> => 1 \in D
  PROVE  Public(g, p.secret) \subseteq Shown(g, p)
<1>1. CASE g = <<>>
  <2>1. Entries(g) = {}
    BY <1>1 DEF Entries
  <2> QED
    BY <2>1 DEF Public
<1>2. CASE g # <<>>
  <2> DEFINE v == Start(g, p)
             r == Walk(g, p)[v]
             S == r.seen \cup {1}
  <2>1. /\ Shown(g, p) = r.shown /\ v \in Visits(g, p)
        /\ v.object = 1 /\ v.upto = Len(g[1]) /\ v.depth = 0
        /\ v.seen = IF p.copied THEN {} ELSE {1}
    BY <1>2, ShownIs
  <2>2. Roomy(D, c, v)
    <3>1. Cardinality({}) = 0 /\ Cardinality({1}) = 1
      BY FS_EmptySet, FS_Singleton
    <3> HIDE DEF v
    <3> QED
      BY <1>2, <2>1, <3>1 DEF Roomy
  <2>3. AllTold(g, p, D, v, r)
    <3> HIDE DEF v
    <3> QED
      BY <2>1, <2>2, WalkIsComplete
  <2> HIDE DEF v, r
  <2>4. \A e \in Entries(g) : e[1] \in S => Told(g, p, e, r)
    <3> TAKE e \in Entries(g)
    <3> HAVE e[1] \in S
    <3>1. e[2] <= Len(g[e[1]])
      BY EntriesAre
    <3>2. (e[1] = v.object /\ e[2] <= v.upto) \/ e[1] \in r.seen \ v.seen
      BY <2>1, <3>1
    <3> QED
      BY <2>3, <3>2 DEF AllTold
  <2>5. \A e \in Entries(g) : e[1] \in S /\ KeyAt(g, e) \notin p.secret /\ ValAt(g, e) # 0
          => ValAt(g, e) \in S
    BY <2>4 DEF Told
  <2>6. Reach(g, p.secret)[Len(g)] \subseteq S
    <3>1. 1 \in S
      OBVIOUS
    <3> HIDE DEF S
    <3> QED
      BY <2>5, <3>1, ReachClosed
  <2> QED
    BY <2>1, <2>4, <2>6 DEF Public, Told
<1> QED
  BY <1>1, <1>2

-----------------------------------------------------------------------------
(* An invariant of the request pipeline (RequestPipeline)                  *)

\* The names that a log uses itself.  (The provers do not know that a literal is a string.)
LogNames == STRING \cup {"stack", "error", "errorType", "attempt", "attempts", "maxAttempts", "strategy",
                      "backoffMs", "retryable"}

Levels == {"debug", "info", "warn", "error", "fatal"}

LogWhats == {"incoming", "request", "response", "request failed", "completed", "failed", "category",
          "transient exception", "permanent exception", "framework", "note", "recovery",
          "csrf", "csrf_violation", "metrics_access"}

Texts == {"AppLogger", "HttpClientInterceptor", "Handler", "ErrorCategorizerService", "AuditLoggerService",
          "LoggingInterceptor", "CSRFGuard", "details", "Orders", "AuditLogger", "ExceptionsHandler",
          "stack", "none"}

LogEntries == [level : Levels, what : LogWhats, context : Texts, graph : Graphs(LogNames), trace : Texts]

Samples == [status : 200 .. 599, class : {"2xx", "4xx", "5xx"}]

\* What a handler can make of a request.
IsOutcome(e) ==
  /\ e.class \in {"returned", "app", "http", "error", "thrown"}
  /\ e.class \in {"app", "http"} => e.status \in 400 .. 599
  /\ e.status \in Nat /\ e.context \in Graphs(LogNames)

NoSamples == [http |-> <<>>, registry |-> <<>>]

Visible(i) == MinLevel = 0 \/ (MinLevel = 1 /\ i.path = "/items")

\* What a filter says of an exception.
Verdicts == {"transient exception", "permanent exception"}

\* The log of a request that is on its way: it came in, and nothing says how it went.
Begun(i, j) ==
  /\ \A k \in DOMAIN j :
       j[k].what \notin {"completed", "failed", "response", "request failed"} \cup Verdicts
  /\ Visible(i) => \E k \in DOMAIN j : Places(j, {"incoming"}) = {k}

\* What a filter writes of an exception e: how it is categorized, and the error.
WroteFailure(e, lines) ==
  /\ lines \in Seq(LogEntries)
  /\ \A k \in DOMAIN lines :
       /\ lines[k].what \in {"category", "transient exception", "permanent exception", "framework"}
       /\ lines[k].what = "transient exception" => CategorizeError(e).retryable
       /\ lines[k].what = "permanent exception" => ~ CategorizeError(e).retryable
  /\ MinLevel <= 3 => \E k \in DOMAIN lines : lines[k].level = "error"

\* What is sent and written when e reaches the filters.
Handled(i, e, f) ==
  /\ f.answer.status \in 400 .. 599 /\ f.answer.context \in Graphs(LogNames)
  /\ e.class = "app" => f.answer.status = e.status
  /\ e.class = "http" /\ (i.filtered \/ env.order[1] = "http") => f.answer.status = e.status
  /\ env.production =>
       /\ ~ f.answer.stack
       /\ f.answer.message = "own" => e.class \in {"app", "http"}
       /\ f.answer.context # NoGraph => e.class = "http"
  /\ WroteFailure(e, f.log)

\* A retry may cure e.
Curable(e) ==
  \/ e.class \in {"http", "error"} /\ e.status \in {429, 502, 503, 504}
  \/ WayBlamed(e)

\* A request i that was answered: the handler, or what came before it, made o of it; a was
\* sent, j written and s recorded.
Intercepts(i) == Middleware(i) = NoOutcome /\ Admits(i)
Success(i, o) == o.class = "returned" /\ env.metricsFound /\ ~ (i.client /\ i.void)

KeptIn(i, o, a) ==
  /\ a.status \in 200 .. 599
  /\ Success(i, o) => a.status = ResponseStatus(i)
  /\ o.class # "returned" => a.status \in 400 .. 599
  /\ o.class = "app" /\ env.metricsFound => a.status = o.status

MeasuredIn(i, o, a, s) ==
  LET own == o.class = "http" /\ (i.filtered \/ env.order[1] = "http") /\ env.metricsFound
  IN /\ Len(s.http) = IF Intercepts(i) /\ env.metricsFound /\ env.metricsEnabled THEN 1 ELSE 0
     /\ Len(s.registry) = IF Intercepts(i) /\ i.instrumented THEN 1 ELSE 0
     /\ Success(i, o) \/ own =>
          \A x \in ToSet(s.http) \cup ToSet(s.registry) : x.status = a.status

StoryIn(i, j, client, how) ==
  /\ Visible(i) => Tells(j, "incoming", how, {"completed", "failed"})
  /\ i.client /\ Visible(i) /\ env.metricsFound
       => Tells(j, client, how, {"response", "request failed"})

ToldIn(i, o, a, j) ==
  /\ Intercepts(i) /\ a.status < 400 => StoryIn(i, j, "response", "completed")
  /\ Intercepts(i) /\ a.status >= 400 => StoryIn(i, j, "request failed", "failed")
  /\ ~ Intercepts(i) => Places(j, {"incoming", "completed", "failed"}) = {}
  /\ a.status >= 500 /\ MinLevel <= 3 => \E k \in DOMAIN j : j[k].level = "error"
  /\ \A k \in DOMAIN j :
       /\ j[k].what = "transient exception" => Curable(o)
       /\ j[k].what = "permanent exception" /\ env.metricsFound => ~ Passes(o)

DiscreetIn(o, a) ==
  env.production =>
    /\ ~ a.stack
    /\ a.message = "own" => o.class \in {"returned", "app", "http"}
    /\ a.context # NoGraph => o.class = "http"

WellEnded(i, o, a, j, s) ==
  KeptIn(i, o, a) /\ MeasuredIn(i, o, a, s) /\ ToldIn(i, o, a, j) /\ DiscreetIn(o, a)

Passing == {"guards", "pipe", "handling", "awaiting"}

\* A request at each stage.
RequestOK(st, i, c, o, a, j, s) ==
  /\ a.status \in {0} \cup 200 .. 599 /\ a.context \in Graphs(LogNames)
  /\ j \in Seq(LogEntries)
  /\ s \in [http : Seq(Samples), registry : Seq(Samples)]
  /\ st # "answered" => s = NoSamples
  /\ st \in {"idle", "guards"} => j = <<>>
  /\ st \in Passing => /\ i \in Inputs /\ Middleware(i) = NoOutcome
                       /\ c = IF env.mongo THEN SanitizeObject(i.payload) ELSE i.payload
  /\ st \in Passing \ {"guards"} => Admits(i) /\ Begun(i, j)
  /\ st = "answered" => i \in Inputs /\ IsOutcome(o) /\ WellEnded(i, o, a, j, s)

Framed ==
  /\ env \in Deployments /\ app \in {"starting", "running", "failed"}
  /\ in \in [Requests -> Inputs \cup {NoInput}]
  /\ stage \in [Requests -> {"idle", "answered"} \cup Passing]
  /\ DOMAIN cleaned = Requests /\ DOMAIN outcome = Requests /\ DOMAIN answer = Requests
  /\ DOMAIN journal = Requests /\ DOMAIN samples = Requests

AllOK ==
  /\ AllWhole /\ Framed
  /\ \A r \in Requests :
       RequestOK(stage[r], in[r], cleaned[r], outcome[r], answer[r], journal[r], samples[r])
-----------------------------------------------------------------------------
(* What the loggers write                                                  *)

\* The levels as numbers.
LEMMA LevelIs ==
  /\ LevelOf["debug"] = 0 /\ LevelOf["info"] = 1 /\ LevelOf["warn"] = 2
  /\ LevelOf["error"] = 3 /\ LevelOf["fatal"] = 4
BY DEF LevelOf

Arguments ==
  {NoArg} \cup {Str(x) : x \in Texts} \cup {Obj(g) : g \in Graphs(LogNames)}
  \cup {Options(x, g, t) : x \in Texts, g \in Graphs(LogNames), t \in Texts}

\* What a call writes: one entry if the level is shown, otherwise nothing.
Writes(s, min, level, what) ==
  /\ s \in Seq(LogEntries)
  /\ IF LevelOf[level] >= min THEN Len(s) = 1 /\ s[1].level = level /\ s[1].what = what
     ELSE s = <<>>

\* A sequence of one element.
LEMMA OneIsSequence ==
  ASSUME NEW S, NEW e \in S
  PROVE  <<e>> \in Seq(S) /\ Len(<<e>>) = 1 /\ <<e>>[1] = e
BY FunctionIsSequence

\* The object without entries is a graph.
LEMMA NoGraphIs == NoGraph \in Graphs(LogNames)
BY EmptySeq DEF NoGraph, Graphs

\* What an argument of a logger is.
LEMMA ArgumentIs ==
  ASSUME NEW a \in Arguments
  PROVE  /\ a.is \in {"undefined", "string", "object", "options"}
         /\ a.is \in {"string", "options"} => a.s \in Texts
         /\ a.is \in {"object", "options"} => a.g \in Graphs(LogNames)
         /\ a.is = "options" => a.trace \in Texts
         /\ GraphOf(a) \in Graphs(LogNames)
<1>1. CASE a = NoArg
  BY <1>1, NoGraphIs DEF NoArg, GraphOf, IsObject
<1>2. CASE \E x \in Texts : a = Str(x)
  BY <1>2, NoGraphIs DEF Str, GraphOf, IsObject
<1>3. CASE \E g \in Graphs(LogNames) : a = Obj(g)
  BY <1>3 DEF Obj, GraphOf, IsObject
<1>4. CASE \E x \in Texts, g \in Graphs(LogNames), t \in Texts : a = Options(x, g, t)
  BY <1>4 DEF Options, GraphOf, IsObject
<1> QED
  BY <1>1, <1>2, <1>3, <1>4 DEF Arguments

\* Debug, info and warn write one entry of their level, or nothing below the level shown.
LEMMA ShortWrites ==
  ASSUME NEW min, NEW own \in Texts, NEW level \in Levels, NEW what \in LogWhats,
         NEW a \in Arguments, NEW b \in Arguments
  PROVE  Writes(Short(min, own, level, what, a, b), min, level, what)
<1> DEFINE e == CASE a.is = "string"    -> BuildMetadata(level, what, a.s, GraphOf(b), "none")
                  [] a.is = "options"   -> BuildMetadata(level, what, a.s, a.g, "none")
                  [] a.is = "object"    -> BuildMetadata(level, what, own, a.g, "none")
                  [] a.is = "undefined" -> BuildMetadata(level, what, own, GraphOf(b), "none")
<1>1. "none" \in Texts
  BY DEF Texts
<1>2. e \in LogEntries /\ e.level = level /\ e.what = what
  BY <1>1, ArgumentIs DEF BuildMetadata, LogEntries
<1> HIDE DEF e
<1>3. <<e>> \in Seq(LogEntries) /\ Len(<<e>>) = 1 /\ <<e>>[1] = e
  BY <1>2, OneIsSequence
<1>4. <<>> \in Seq(LogEntries)
  BY EmptySeq
<1> QED
  BY <1>2, <1>3, <1>4 DEF Short, Writes, ShouldLog, e

\* So do error and fatal, with whatever of trace, context and metadata they are given.
LEMMA LongWrites ==
  ASSUME NEW min, NEW own \in Texts, NEW level \in Levels, NEW what \in LogWhats,
         NEW a \in Arguments, NEW b \in Arguments, NEW c \in Arguments
  PROVE  Writes(Long(min, own, level, what, a, b, c), min, level, what)
<1> DEFINE e == CASE a.is = "options" ->
                       BuildMetadata(level, what, a.s, a.g, a.trace)
                  [] a.is = "string" /\ b.is = "string" ->
                       BuildMetadata(level, what, b.s, GraphOf(c), a.s)
                  [] a.is = "string" /\ IsObject(b) ->
                       BuildMetadata(level, what, own, b.g, a.s)
                  [] a.is = "string" /\ b.is = "undefined" ->
                       BuildMetadata(level, what, a.s, GraphOf(c), "none")
                  [] a.is \in {"object", "undefined"} ->
                       BuildMetadata(level, what, own, IF IsObject(b) THEN b.g ELSE GraphOf(c),
                                     "none")
<1>1. "none" \in Texts
  BY DEF Texts
<1>2. e \in LogEntries /\ e.level = level /\ e.what = what
  BY <1>1, ArgumentIs DEF BuildMetadata, LogEntries, IsObject
<1> HIDE DEF e
<1>3. <<e>> \in Seq(LogEntries) /\ Len(<<e>>) = 1 /\ <<e>>[1] = e
  BY <1>2, OneIsSequence
<1>4. <<>> \in Seq(LogEntries)
  BY EmptySeq
<1> QED
  BY <1>2, <1>3, <1>4 DEF Long, Writes, ShouldLog, e

\* What the application gives has keys that are strings, and those are names of the log.
LEMMA StringsAreNames ==
  ASSUME NEW g \in Graphs(STRING)
  PROVE  g \in Graphs(LogNames)
<1>1. g \in Seq(Seq([key : STRING, val : Nat]))
  BY DEF Graphs
<1>2. [key : STRING, val : Nat] \subseteq [key : LogNames, val : Nat]
  <2>1. STRING \subseteq LogNames
    BY DEF LogNames
  <2> QED
    BY <2>1
<1> DEFINE A == [key : STRING, val : Nat]
           B == [key : LogNames, val : Nat]
<1>3. g \in Seq(Seq(A)) /\ A \subseteq B
  BY <1>1, <1>2
<1>4. g \in Seq(Seq(B))
  <2> HIDE DEF A, B
  <2>1. Seq(A) \subseteq Seq(B)
    BY <1>3, SeqMonotonic
  <2> DEFINE C == Seq(A)
             D == Seq(B)
  <2>2. g \in Seq(C) /\ C \subseteq D
    BY <1>3, <2>1
  <2> HIDE DEF C, D
  <2>3. g \in Seq(D)
    BY <2>2, SeqMonotonic
  <2> QED
    BY <2>3 DEF D
<1> QED
  BY <1>4 DEF Graphs

\* An object of primitives is a graph.
LEMMA FlatIs ==
  ASSUME NEW keys \in Seq(LogNames)
  PROVE  Flat(keys) \in Graphs(LogNames)
<1> DEFINE root == [i \in DOMAIN keys |-> [key |-> keys[i], val |-> 0]]
<1>1. Len(keys) \in Nat /\ DOMAIN keys = 1 .. Len(keys) /\ \A i \in 1 .. Len(keys) : keys[i] \in LogNames
  BY LenProperties, ElementOfSeq
<1>2. root \in [1 .. Len(keys) -> [key : LogNames, val : Nat]] /\ \A i \in DOMAIN root : root[i].val = 0
  BY <1>1
<1> HIDE DEF root
<1>3. root \in Seq([key : LogNames, val : Nat])
  BY <1>1, <1>2, FunctionIsSequence
<1>4. /\ <<root>> \in Seq(Seq([key : LogNames, val : Nat])) /\ Len(<<root>>) = 1 /\ <<root>>[1] = root
      /\ DOMAIN <<root>> = 1 .. 1
  BY <1>3, OneIsSequence
<1>5. \A n \in DOMAIN <<root>> : \A i \in DOMAIN <<root>>[n] : <<root>>[n][i].val <= Len(<<root>>)
  BY <1>2, <1>4
<1>6. Flat(keys) = <<root>>
  BY DEF Flat, root
<1> QED
  BY <1>4, <1>5, <1>6 DEF Graphs

\* The arguments that the services and filters give a logger.
LEMMA ObjectsAre ==
  /\ Obj(NoGraph) \in Arguments /\ NoArg \in Arguments /\ Obj(StackGraph) \in Arguments
  /\ \A keys \in Seq(LogNames) : Obj(Flat(keys)) \in Arguments
  /\ \A g \in Graphs(LogNames) : Obj(g) \in Arguments
  /\ \A x \in Texts : Str(x) \in Arguments
<1>1. <<"stack">> \in Seq(LogNames) /\ StackGraph = Flat(<<"stack">>)
  <2>1. "stack" \in LogNames
    BY DEF LogNames
  <2>2. <<"stack">> \in Seq(LogNames) /\ Len(<<"stack">>) = 1 /\ <<"stack">>[1] = "stack"
    BY <2>1, OneIsSequence
  <2>3. StackGraph = Flat(<<"stack">>)
    BY DEF StackGraph, Flat
  <2> QED
    BY <2>2, <2>3
<1>2. \A keys \in Seq(LogNames) : Flat(keys) \in Graphs(LogNames)
  BY FlatIs
<1>3. \A g \in Graphs(LogNames) : Obj(g) \in Arguments
  BY DEF Arguments
<1>4. NoArg \in Arguments /\ \A x \in Texts : Str(x) \in Arguments
  BY DEF Arguments
<1> QED
  BY <1>1, <1>2, <1>3, <1>4, NoGraphIs

\* ErrorCategorizerService writes one entry when it categorizes.
LEMMA LogCategoryWrites ==
  ASSUME NEW min, NEW e
  PROVE  Writes(LogCategory(min, e), min, CategorizeError(e).level, "category")
<1>1. CategorizeError(e).level \in Levels
  BY DEF CategorizeError, Transient, Permanent, Levels
<1>2. <<"error">> \in Seq(LogNames)
  BY OneIsSequence DEF LogNames
<1>3. "ErrorCategorizerService" \in Texts /\ "category" \in LogWhats
  BY DEF Texts, LogWhats
<1> QED
  BY <1>1, <1>2, <1>3, ObjectsAre, ShortWrites DEF LogCategory

\* And one for each step of a recovery.
LEMMA LogRecoveryWrites ==
  ASSUME NEW min, NEW kind \in {"attempt", "success", "failed"}
  PROVE  \E level \in Levels : Writes(LogRecovery(min, kind), min, level, "recovery")
<1>1. /\ <<"attempt", "maxAttempts", "errorType", "strategy", "backoffMs", "error">> \in Seq(LogNames)
      /\ <<"attempts", "error">> \in Seq(LogNames)
      /\ <<"attempts", "errorType", "retryable", "error">> \in Seq(LogNames)
  BY DEF LogNames
<1>2. /\ "ErrorCategorizerService" \in Texts /\ "recovery" \in LogWhats
      /\ "info" \in Levels /\ "error" \in Levels
  BY DEF Texts, LogWhats, Levels
<1>3. CASE kind = "attempt"
  BY <1>1, <1>2, <1>3, ObjectsAre, ShortWrites DEF LogRecovery, Info
<1>4. CASE kind = "success"
  BY <1>1, <1>2, <1>4, ObjectsAre, ShortWrites DEF LogRecovery, Info
<1>5. CASE kind = "failed"
  BY <1>1, <1>2, <1>5, ObjectsAre, LongWrites DEF LogRecovery, Error
<1> QED
  BY <1>3, <1>4, <1>5

\* The parameters that the framework gives.
LEMMA AdapterWrites ==
  ASSUME NEW min,
         NEW params \in {<<"stack", "Orders">>, <<"stack">>, <<"Orders">>, <<"ExceptionsHandler">>}
  PROVE  /\ Writes(AdapterError(min, "AppLogger", params), min, "error", "framework")
         /\ Writes(AdapterLog(min, "AppLogger", "verbose", params), min, "debug", "framework")
<1>1. "AppLogger" \in Texts /\ "framework" \in LogWhats /\ "error" \in Levels /\ "debug" \in Levels
  BY DEF Texts, LogWhats, Levels
<1>2. Last(params) \in {"Orders", "stack", "ExceptionsHandler"}
  BY DEF Last
<1>3. ExtractContext(params) \in Arguments
  BY <1>2, ObjectsAre DEF ExtractContext, Texts
<1>4. ExtractErrorParams(params).context \in Arguments
  BY <1>3, ObjectsAre DEF ExtractErrorParams
<1>5. Writes(AdapterError(min, "AppLogger", params), min, "error", "framework")
  BY <1>1, <1>4, ObjectsAre, LongWrites DEF AdapterError
<1>6. Writes(AdapterLog(min, "AppLogger", "verbose", params), min, "debug", "framework")
  BY <1>1, <1>3, ObjectsAre, ShortWrites DEF AdapterLog, Debug
<1> QED
  BY <1>5, <1>6

\* Where an entry is found in one sequence followed by another.
LEMMA ConcatIs ==
  ASSUME NEW S, NEW s \in Seq(S), NEW t \in Seq(S)
  PROVE  /\ s \o t \in Seq(S) /\ Len(s \o t) = Len(s) + Len(t)
         /\ Len(s) \in Nat /\ DOMAIN s = 1 .. Len(s) /\ Len(t) \in Nat /\ DOMAIN t = 1 .. Len(t)
         /\ DOMAIN (s \o t) = 1 .. Len(s) + Len(t)
         /\ \A k \in DOMAIN s : k \in DOMAIN (s \o t) /\ (s \o t)[k] = s[k]
         /\ \A k \in DOMAIN t : Len(s) + k \in DOMAIN (s \o t) /\ (s \o t)[Len(s) + k] = t[k]
         /\ \A k \in DOMAIN (s \o t) :
              \/ k \in DOMAIN s
              \/ k > Len(s) /\ k - Len(s) \in DOMAIN t /\ k = Len(s) + (k - Len(s))
<1>1. /\ Len(s) \in Nat /\ DOMAIN s = 1 .. Len(s) /\ Len(t) \in Nat /\ DOMAIN t = 1 .. Len(t)
      /\ s \o t \in Seq(S) /\ Len(s \o t) = Len(s) + Len(t)
  BY LenProperties, ConcatProperties
<1>2. DOMAIN (s \o t) = 1 .. Len(s) + Len(t)
  BY <1>1, LenProperties
<1>3. \A k \in 1 .. Len(s) + Len(t) : (s \o t)[k] = IF k <= Len(s) THEN s[k] ELSE t[k - Len(s)]
  BY ConcatProperties
<1>4. ASSUME NEW k \in DOMAIN s PROVE k \in DOMAIN (s \o t) /\ (s \o t)[k] = s[k]
  <2>1. k \in 1 .. Len(s) + Len(t) /\ k <= Len(s)
    BY <1>1
  <2> QED
    BY <1>2, <1>3, <2>1
<1>5. ASSUME NEW k \in DOMAIN t PROVE Len(s) + k \in DOMAIN (s \o t) /\ (s \o t)[Len(s) + k] = t[k]
  <2>1. Len(s) + k \in 1 .. Len(s) + Len(t) /\ ~ (Len(s) + k <= Len(s)) /\ (Len(s) + k) - Len(s) = k
    BY <1>1
  <2> QED
    BY <1>2, <1>3, <2>1
<1> QED
  BY <1>1, <1>2, <1>4, <1>5

\* The places of a kind in one sequence after another.
LEMMA ConcatPlaces ==
  ASSUME NEW S, NEW s \in Seq(S), NEW t \in Seq(S), NEW whats
  PROVE  Places(s \o t, whats) = Places(s, whats) \cup {Len(s) + k : k \in Places(t, whats)}
BY ConcatIs DEF Places

\* What a call of the logger writes is of one kind.
LEMMA WritesPlaces ==
  ASSUME NEW s, NEW min, NEW level, NEW what, Writes(s, min, level, what)
  PROVE  /\ s \in Seq(LogEntries) /\ Len(s) \in {0, 1} /\ DOMAIN s = 1 .. Len(s)
         /\ \A k \in DOMAIN s : s[k].what = what /\ s[k].level = level /\ s[k].graph \in Graphs(LogNames)
         /\ Len(s) = IF LevelOf[level] >= min THEN 1 ELSE 0
         /\ \A whats : Places(s, whats) = IF LevelOf[level] >= min /\ what \in whats THEN {1} ELSE {}
<1>1. s \in Seq(LogEntries) /\ DOMAIN s = 1 .. Len(s)
  BY LenProperties DEF Writes
<1>2. Len(<<>>) = 0
  BY EmptySeq
<1>3. \A k \in DOMAIN s : s[k] \in LogEntries
  BY <1>1, ElementOfSeq
<1>4. Len(s) = IF LevelOf[level] >= min THEN 1 ELSE 0
  BY <1>2 DEF Writes
<1>5. \A k \in DOMAIN s : k = 1 /\ LevelOf[level] >= min
  BY <1>1, <1>4
<1>6. LevelOf[level] >= min => 1 \in DOMAIN s
  BY <1>1, <1>4
<1>7. \A k \in DOMAIN s : s[k].what = what /\ s[k].level = level
  BY <1>5 DEF Writes
<1> QED
  BY <1>1, <1>3, <1>4, <1>5, <1>6, <1>7 DEF Places, LogEntries

-----------------------------------------------------------------------------
(* The filters                                                             *)

\* The least number of a set.
LEMMA LeastIsMin ==
  ASSUME NEW T, T \subseteq Nat, T # {}
  PROVE  Min(T) \in T /\ \A y \in T : Min(T) <= y
BY Least DEF Min

\* Which filter an exception reaches.
LEMMA FilterChosen ==
  ASSUME env \in Deployments, NEW i, i.filtered \in BOOLEAN,
         NEW e, e.class \in {"app", "http", "error", "thrown"}
  PROVE  \/ e.class = "thrown" /\ Filtered(i, e) = BaseExceptionFilter(MinLevel)
         \/ e.class = "http" /\ Filtered(i, e) = HttpExceptionFilter(e, MinLevel, IsDevelopment)
         \/ /\ e.class \in {"app", "http", "error"} /\ ~ (e.class = "http" /\ (i.filtered \/ env.order[1] = "http"))
            /\ Filtered(i, e) = GlobalExceptionFilter(e, MinLevel, IsDevelopment)
<1> DEFINE own == IF i.filtered THEN <<"http">> ELSE <<>>
           order == env.order
           S == {"http", "global"}
           filters == own \o order
           catching == {k \in DOMAIN filters : Catches(filters[k], e)}
<1>1. env.order \in {<<"global", "http">>, <<"http", "global">>}
  BY PipelineAssumption DEF DeploymentRecords
<1>2. /\ own \in Seq(S) /\ Len(own) = IF i.filtered THEN 1 ELSE 0
      /\ i.filtered => 1 \in DOMAIN own /\ own[1] = "http"
  <2>1. CASE i.filtered
    <3>1. <<"http">> \in Seq(S) /\ Len(<<"http">>) = 1 /\ <<"http">>[1] = "http" /\ 1 \in DOMAIN <<"http">>
      BY OneIsSequence
    <3> QED
      BY <2>1, <3>1
  <2>2. CASE ~ i.filtered
    <3>1. <<>> \in Seq(S) /\ Len(<<>>) = 0
      BY EmptySeq
    <3> QED
      BY <2>2, <3>1
  <2> QED
    BY <2>1, <2>2
<1>9. /\ order \in Seq(S) /\ DOMAIN order = 1 .. 2
       /\ \E k \in DOMAIN order : order[k] = "global"
  <2> HIDE DEF order
  <2>1. CASE order = <<"global", "http">>
    BY <2>1
  <2>2. CASE order = <<"http", "global">>
    BY <2>2
  <2> QED
    BY <1>1, <2>1, <2>2 DEF order
<1>3. /\ DOMAIN filters \subseteq Nat /\ \A k \in DOMAIN filters : k >= 1 /\ filters[k] \in {"http", "global"}
      /\ \E k \in DOMAIN filters : filters[k] = "global"
      /\ 1 \in DOMAIN filters /\ (filters[1] = "http" <=> i.filtered \/ order[1] = "http")
  <2> HIDE DEF own, order, S
  <2>1. filters \in Seq(S) /\ DOMAIN filters = 1 .. Len(filters) /\ Len(filters) \in Nat
    BY <1>2, <1>9, ConcatIs
  <2>2. /\ \A k \in DOMAIN own : k \in DOMAIN filters /\ filters[k] = own[k]
        /\ \A k \in DOMAIN order : Len(own) + k \in DOMAIN filters /\ filters[Len(own) + k] = order[k]
    BY <1>2, <1>9, ConcatIs
  <2> HIDE DEF filters
  <2>3. \A k \in DOMAIN filters : filters[k] \in S
    BY <2>1, ElementOfSeq
  <2>6. \E k \in DOMAIN filters : filters[k] = "global"
    BY <1>9, <2>2
  <2>7. DOMAIN filters \subseteq Nat /\ \A k \in DOMAIN filters : k >= 1 /\ filters[k] \in {"http", "global"}
    BY <2>1, <2>3 DEF S
  <2>4. CASE i.filtered
    <3>1. 1 \in DOMAIN filters /\ filters[1] = "http"
      BY <1>2, <2>2, <2>4
    <3> QED
      BY <2>1, <2>4, <2>6, <2>7, <3>1
  <2>5. CASE ~ i.filtered
    <3>1. Len(own) + 1 = 1 /\ 1 \in DOMAIN order
      BY <1>2, <1>9, <2>5
    <3>2. 1 \in DOMAIN filters /\ filters[1] = order[1]
      BY <2>2, <3>1
    <3> QED
      BY <2>5, <2>6, <2>7, <3>2
  <2> QED
    BY <2>4, <2>5
<1>4. Filtered(i, e) =
        IF catching = {} THEN BaseExceptionFilter(MinLevel)
        ELSE IF filters[Min(catching)] = "http" THEN HttpExceptionFilter(e, MinLevel, IsDevelopment)
        ELSE GlobalExceptionFilter(e, MinLevel, IsDevelopment)
  BY DEF Filtered
<1> HIDE DEF filters, own, order, S
<1>5. catching \subseteq Nat
  BY <1>3
<1>6. \A k \in catching : k \in DOMAIN filters /\ Catches(filters[k], e)
  OBVIOUS
<1>7. CASE catching = {}
  <2>1. PICK k \in DOMAIN filters : filters[k] = "global" /\ ~ Catches(filters[k], e)
    BY <1>3, <1>7
  <2> QED
    BY <1>4, <1>7, <2>1 DEF Catches
<1>8. CASE catching # {}
  <2> DEFINE m == Min(catching)
  <2>1. m \in catching /\ \A k \in catching : m <= k
    <3> HIDE DEF catching
    <3> QED
      BY <1>5, <1>8, LeastIsMin
  <2>2. filters[m] \in {"http", "global"} /\ Catches(filters[m], e)
    BY <1>3, <1>6, <2>1
  <2>3. CASE filters[m] = "http"
    BY <1>4, <1>8, <2>2, <2>3 DEF Catches
  <2>4. CASE filters[m] = "global"
    <3>1. e.class \in {"app", "http", "error"}
      BY <2>2, <2>4 DEF Catches
    <3>2. ASSUME e.class = "http", filters[1] = "http" PROVE FALSE
      <4>1. 1 \in catching
        BY <1>3, <3>2 DEF Catches
      <4>2. m \in Nat /\ m >= 1 /\ m <= 1
        BY <1>3, <1>6, <2>1, <4>1
      <4> QED
        BY <2>4, <3>2, <4>2
    <3> QED
      BY <1>3, <1>4, <1>8, <2>4, <3>1, <3>2 DEF order
  <2> QED
    BY <2>2, <2>3, <2>4
<1> QED
  BY <1>7, <1>8

\* What the two filters of the repository write.
LEMMA FailureWritten ==
  ASSUME NEW e, NEW x \in Arguments
  PROVE  WroteFailure(e, LogCategory(MinLevel, e)
                         \o Error(MinLevel, "AppLogger", FilterEntry(e), x, NoArg, Obj(NoGraph)))
<1> DEFINE s == LogCategory(MinLevel, e)
           t == Error(MinLevel, "AppLogger", FilterEntry(e), x, NoArg, Obj(NoGraph))
           what == FilterEntry(e)
<1>1. /\ what \in {"transient exception", "permanent exception"}
      /\ what = "transient exception" => CategorizeError(e).retryable
      /\ what = "permanent exception" => ~ CategorizeError(e).retryable
  BY DEF FilterEntry
<1>2. Writes(s, MinLevel, CategorizeError(e).level, "category")
  BY LogCategoryWrites
<1>3. Writes(t, MinLevel, "error", what)
  <2>1. "AppLogger" \in Texts /\ "error" \in Levels
    BY DEF Texts, Levels
  <2>2. what \in LogWhats
    BY <1>1 DEF LogWhats
  <2> HIDE DEF what
  <2>3. Writes(Long(MinLevel, "AppLogger", "error", what, x, NoArg, Obj(NoGraph)), MinLevel, "error", what)
    BY <2>1, <2>2, ObjectsAre, LongWrites
  <2> QED
    BY <2>3 DEF Error, what
<1> HIDE DEF s, t, what
<1>4. /\ s \in Seq(LogEntries) /\ \A k \in DOMAIN s : s[k].what = "category"
      /\ t \in Seq(LogEntries) /\ DOMAIN t = 1 .. Len(t)
      /\ \A k \in DOMAIN t : t[k].what = what /\ t[k].level = "error"
      /\ 3 >= MinLevel => Len(t) = 1
  BY <1>2, <1>3, WritesPlaces, LevelIs
<1>5. s \o t \in Seq(LogEntries)
  BY <1>4, ConcatIs
<1>6. ASSUME NEW k \in DOMAIN (s \o t) PROVE (s \o t)[k].what \in {"category", what}
  <2>1. CASE k \in DOMAIN s
    BY <1>4, <2>1, ConcatIs
  <2>2. CASE k - Len(s) \in DOMAIN t /\ k = Len(s) + (k - Len(s))
    <3>1. (s \o t)[k] = t[k - Len(s)]
      BY <1>4, <2>2, ConcatIs
    <3> QED
      BY <1>4, <2>2, <3>1
  <2> QED
    BY <1>4, <2>1, <2>2, ConcatIs
<1>7. ASSUME MinLevel <= 3 PROVE \E k \in DOMAIN (s \o t) : (s \o t)[k].level = "error"
  <2>1. 1 \in DOMAIN t
    <3>1. 3 >= MinLevel
      BY <1>7
    <3> QED
      BY <1>4, <3>1
  <2>2. Len(s) + 1 \in DOMAIN (s \o t) /\ (s \o t)[Len(s) + 1] = t[1]
    BY <1>4, <2>1, ConcatIs
  <2> QED
    BY <1>4, <2>1, <2>2
<1>8. WroteFailure(e, s \o t)
  BY <1>1, <1>5, <1>6, <1>7 DEF WroteFailure
<1> QED
  BY <1>8 DEF s, t, what

\* Whichever filter it is, what it sends and writes is right.
LEMMA FilteredIs ==
  ASSUME env \in Deployments, NEW i, i.filtered \in BOOLEAN,
         NEW e, IsOutcome(e), e.class # "returned"
  PROVE  Handled(i, e, Filtered(i, e))
<1> DEFINE f == Filtered(i, e)
<1>1. e.class \in {"app", "http", "error", "thrown"} /\ e.context \in Graphs(LogNames)
  BY DEF IsOutcome
<1>2. e.class \in {"app", "http"} => e.status \in 400 .. 599
  BY DEF IsOutcome
<1>3. Str("stack") \in Arguments /\ NoArg \in Arguments
  BY ObjectsAre DEF Texts
<1>4. env.production \in BOOLEAN
  BY PipelineAssumption DEF DeploymentRecords
<1>5. CASE e.class = "thrown" /\ f = BaseExceptionFilter(MinLevel)
  <2> DEFINE s == AdapterError(MinLevel, "AppLogger", <<"ExceptionsHandler">>)
             a == Answer(500, "generic", SanitizeErrorResponse(500, FALSE, NoGraph, FALSE))
  <2>1. f.log = s /\ f.answer = a
    BY <1>5 DEF BaseExceptionFilter
  <2>2. f.answer.status = 500 /\ f.answer.message = "generic" /\ ~ f.answer.stack /\ f.answer.context = NoGraph
    <3>1. a.status = 500 /\ a.message = "generic" /\ ~ a.stack /\ a.context = NoGraph
      BY DEF Answer, SanitizeErrorResponse
    <3> HIDE DEF f, a
    <3> QED
      BY <2>1, <3>1
  <2>3. Writes(s, MinLevel, "error", "framework")
    BY AdapterWrites
  <2> HIDE DEF f, s
  <2>4. /\ s \in Seq(LogEntries) /\ DOMAIN s = 1 .. Len(s)
        /\ \A k \in DOMAIN s : s[k].what = "framework" /\ s[k].level = "error"
        /\ 3 >= MinLevel => Len(s) = 1
    BY <2>3, WritesPlaces, LevelIs
  <2>5. MinLevel <= 3 => \E k \in DOMAIN s : s[k].level = "error"
    <3> SUFFICES ASSUME MinLevel <= 3 PROVE 1 \in DOMAIN s /\ s[1].level = "error"
      OBVIOUS
    <3>1. 3 >= MinLevel
      OBVIOUS
    <3> QED
      BY <2>4, <3>1
  <2>6. WroteFailure(e, f.log)
    <3>1. WroteFailure(e, s)
      <4>1. \A k \in DOMAIN s :
              /\ s[k].what \in {"category", "transient exception", "permanent exception", "framework"}
              /\ s[k].what \notin Verdicts
        BY <2>4 DEF Verdicts
      <4> QED
        BY <2>4, <2>5, <4>1 DEF WroteFailure, Verdicts
    <3> QED
      BY <2>1, <3>1
  <2>7. f.answer.status \in 400 .. 599 /\ f.answer.context \in Graphs(LogNames)
    BY <2>2, NoGraphIs
  <2>8. f.answer.message # "own" /\ e.class = "thrown"
    BY <1>5, <2>2
  <2>9. Handled(i, e, f)
    BY <2>2, <2>6, <2>7, <2>8 DEF Handled
  <2> QED
    BY <2>9 DEF f
<1>6. CASE e.class = "http" /\ f = HttpExceptionFilter(e, MinLevel, IsDevelopment)
  <2> DEFINE s == LogCategory(MinLevel, e)
                  \o Error(MinLevel, "AppLogger", FilterEntry(e), NoArg, NoArg, Obj(NoGraph))
             code == IF e.bare THEN 500 ELSE e.status
             a == Answer(e.status, "own", SanitizeErrorResponse(code, FALSE, e.context, IsDevelopment))
  <2>1. f.log = s /\ f.answer = a
    BY <1>6 DEF HttpExceptionFilter
  <2>2. f.answer.status = e.status /\ ~ f.answer.stack /\ f.answer.context = e.context
    <3>1. a.status = e.status /\ ~ a.stack /\ a.context = e.context
      <4> HIDE DEF code
      <4> QED
        BY DEF Answer, SanitizeErrorResponse
    <3> HIDE DEF f, a
    <3> QED
      BY <2>1, <3>1
  <2>3. WroteFailure(e, s)
    BY <1>3, FailureWritten
  <2> HIDE DEF f, s
  <2>4. Handled(i, e, f)
    BY <1>1, <1>2, <1>6, <2>1, <2>2, <2>3 DEF Handled, WroteFailure
  <2> QED
    BY <2>4 DEF f
<1>7. CASE /\ e.class \in {"app", "http", "error"} /\ ~ (e.class = "http" /\ (i.filtered \/ env.order[1] = "http"))
           /\ f = GlobalExceptionFilter(e, MinLevel, IsDevelopment)
  <2> DEFINE x == IF IsDevelopment THEN Str("stack") ELSE NoArg
             s == LogCategory(MinLevel, e)
                  \o Error(MinLevel, "AppLogger", FilterEntry(e), x, NoArg, Obj(NoGraph))
             sent == IF e.class = "app" THEN e.status ELSE 500
             context == IF e.class = "app" /\ IsDevelopment THEN e.context ELSE NoGraph
             message == IF e.class = "app" \/ IsDevelopment THEN "own" ELSE "generic"
             a == Answer(sent, message, SanitizeErrorResponse(sent, IsDevelopment, context, IsDevelopment))
  <2>1. f.log = s /\ f.answer = a
    BY <1>7 DEF GlobalExceptionFilter
  <2>2. /\ f.answer.status = sent /\ f.answer.context = context
        /\ f.answer.message = IF e.class = "app" \/ IsDevelopment THEN "own" ELSE "generic"
        /\ env.production => ~ f.answer.stack
    <3>1. /\ a.status = sent /\ a.context = context /\ a.message = message
          /\ ~ IsDevelopment => ~ a.stack
      <4> HIDE DEF sent, context, message
      <4> QED
        BY DEF Answer, SanitizeErrorResponse
    <3>2. ~ IsDevelopment <=> env.production
      BY DEF IsDevelopment
    <3> HIDE DEF f, a, sent, context
    <3> QED
      BY <2>1, <3>1, <3>2
  <2>3. x \in Arguments
    BY <1>3
  <2>4. WroteFailure(e, s)
    <3> HIDE DEF x
    <3> QED
      BY <2>3, FailureWritten
  <2>5. context \in Graphs(LogNames) /\ (env.production => context = NoGraph)
    BY <1>1, NoGraphIs DEF IsDevelopment
  <2>6. sent \in 400 .. 599 /\ (e.class = "app" => sent = e.status)
    BY <1>2
  <2>7. env.production /\ f.answer.message = "own" => e.class = "app"
    BY <2>2 DEF IsDevelopment
  <2> HIDE DEF f, s, context, sent, x
  <2>8. /\ f.answer.status \in 400 .. 599 /\ f.answer.context \in Graphs(LogNames)
        /\ e.class = "app" => f.answer.status = e.status
        /\ WroteFailure(e, f.log)
    BY <2>1, <2>2, <2>4, <2>5, <2>6
  <2>9. env.production => ~ f.answer.stack /\ f.answer.context = NoGraph
    BY <2>2, <2>5
  <2>10. Handled(i, e, f)
    BY <1>7, <2>7, <2>8, <2>9 DEF Handled
  <2> QED
    BY <2>10 DEF f
<1> QED
  BY <1>1, <1>5, <1>6, <1>7, FilterChosen

\* A retry is suggested for what it may cure.
LEMMA RetryableIsCurable ==
  ASSUME NEW e, e.class \in {"returned", "app", "http", "error", "thrown"}, CategorizeError(e).retryable
  PROVE  Curable(e)
<1> DEFINE words == {"timeout", "timed out", "network", "connection", "rate limit", "too many requests"}
           codes == {"ECONNRESET", "ECONNREFUSED", "ETIMEDOUT", "ENOTFOUND", "EAI_AGAIN", "EPIPE"}
<1>1. \/ IsNodeTransient(e) \/ IsDatabaseError(e) \/ IsTimeoutError(e)
      \/ IsNetworkError(e) \/ IsServerError(e) \/ IsRateLimitError(e)
  BY DEF CategorizeError, Transient, Permanent
<1>2. CodeOf(e) \in codes => e.code \in codes
  BY DEF CodeOf
<1>3. StatusOf(e) \in {429, 502, 503, 504} => e.class \in {"http", "error"} /\ e.status \in {429, 502, 503, 504}
  BY DEF StatusOf
<1>4. \A some \in SUBSET words : Says(e, some) => Says(e, words)
  BY DEF Says
<1>5. CodeOf(e) \in codes \/ StatusOf(e) \in {429, 502, 503, 504} \/ Says(e, words)
  BY <1>1, <1>4 DEF IsNodeTransient, IsDatabaseError, IsTimeoutError, IsNetworkError, IsServerError,
                    IsRateLimitError
<1> QED
  BY <1>2, <1>3, <1>5 DEF Curable, WayBlamed

\* And for what passes.
LEMMA PassesIsRetryable ==
  ASSUME NEW e, Passes(e)
  PROVE  CategorizeError(e).retryable
<1>1. CASE e.class = "error" /\ e.code \in {"ECONNRESET", "ECONNREFUSED", "ETIMEDOUT", "ENOTFOUND", "EAI_AGAIN"}
  BY <1>1 DEF CategorizeError, Transient, IsNodeTransient, CodeOf
<1>2. CASE e.class \in {"http", "error"} /\ e.status \in {429, 502, 503, 504}
  <2>1. IsServerError(e) \/ IsRateLimitError(e)
    <3>1. StatusOf(e) \in {429, 502, 503, 504}
      BY <1>2 DEF StatusOf
    <3> QED
      BY <3>1 DEF IsServerError, IsRateLimitError
  <2> QED
    BY <2>1 DEF CategorizeError, Transient
<1> QED
  BY <1>1, <1>2 DEF Passes

-----------------------------------------------------------------------------
(* What is written of a request                                            *)

\* At most one entry, of that kind.
Line(s, what) ==
  /\ s \in Seq(LogEntries) /\ Len(s) \in {0, 1}
  /\ \A k \in DOMAIN s : s[k].what = what

\* A call of the logger writes a line.
LEMMA LineOf ==
  ASSUME NEW s, NEW level, NEW what, Writes(s, MinLevel, level, what)
  PROVE  Line(s, what) /\ (LevelOf[level] >= MinLevel => Len(s) = 1)
BY WritesPlaces DEF Line

\* So does no call.
LEMMA LineEmpty ==
  ASSUME NEW what
  PROVE  Line(<<>>, what)
<1>1. <<>> \in Seq(LogEntries) /\ Len(<<>>) = 0 /\ DOMAIN <<>> = {}
  BY EmptySeq
<1> QED
  BY <1>1 DEF Line

\* Where the entry of a line is found.
LEMMA LinePlaces ==
  ASSUME NEW s, NEW what, Line(s, what), NEW whats
  PROVE  /\ what \notin whats => Places(s, whats) = {}
         /\ what \in whats /\ Len(s) = 1 => Places(s, whats) = {1} /\ s[1].what = what
<1>1. DOMAIN s = 1 .. Len(s)
  BY LenProperties DEF Line
<1> QED
  BY <1>1 DEF Line, Places

\* Only entries of these kinds.
Only(s, whats) == s \in Seq(LogEntries) /\ \A k \in DOMAIN s : s[k].what \in whats

\* One sequence of such entries after another.
LEMMA OnlyConcat ==
  ASSUME NEW whats, NEW s, NEW t, Only(s, whats), Only(t, whats)
  PROVE  Only(s \o t, whats)
<1>1. s \in Seq(LogEntries) /\ t \in Seq(LogEntries)
  BY DEF Only
<1>2. s \o t \in Seq(LogEntries)
  BY <1>1, ConcatIs
<1>3. ASSUME NEW k \in DOMAIN (s \o t) PROVE (s \o t)[k].what \in whats
  <2>1. CASE k \in DOMAIN s
    BY <1>1, <2>1, ConcatIs DEF Only
  <2>2. CASE k - Len(s) \in DOMAIN t /\ k = Len(s) + (k - Len(s))
    <3>1. (s \o t)[k] = t[k - Len(s)]
      BY <1>1, <2>2, ConcatIs
    <3> QED
      BY <2>2, <3>1 DEF Only
  <2> QED
    BY <1>1, <2>1, <2>2, ConcatIs
<1> QED
  BY <1>2, <1>3 DEF Only

\* The levels, contexts and kinds that the services use.
LEMMA LevelsAndTexts ==
  /\ {"debug", "info", "warn", "error"} \subseteq Levels
  /\ {"AppLogger", "HttpClientInterceptor", "Handler", "AuditLoggerService", "LoggingInterceptor",
      "CSRFGuard", "details", "Orders", "AuditLogger", "stack", "none"} \subseteq Texts
  /\ {"incoming", "request", "response", "request failed", "completed", "failed", "note", "csrf",
      "csrf_violation", "metrics_access"} \subseteq LogWhats
BY DEF Levels, Texts, LogWhats

\* LoggingInterceptor writes a line for a request, seen by default but for the noise.
LEMMA LogFnWrites ==
  ASSUME NEW i, NEW what \in LogWhats
  PROVE  Line(LogFn(i, what), what) /\ (Visible(i) => Len(LogFn(i, what)) = 1)
<1> DEFINE level == IF i.path \in {"/health", "/metrics"} THEN "debug" ELSE "info"
<1>1. Writes(LogFn(i, what), MinLevel, level, what)
  <2>1. Str("LoggingInterceptor") \in Arguments /\ NoArg \in Arguments /\ "AppLogger" \in Texts
    BY ObjectsAre, LevelsAndTexts
  <2>2. level \in Levels
    BY LevelsAndTexts
  <2>3. LogFn(i, what) = Short(MinLevel, "AppLogger", level, what, Str("LoggingInterceptor"), NoArg)
    BY DEF LogFn, Debug, Info
  <2> HIDE DEF level
  <2> QED
    BY <2>1, <2>2, <2>3, ShortWrites
<1>2. Visible(i) => LevelOf[level] >= MinLevel
  BY LevelIs DEF Visible
<1> HIDE DEF level
<1> QED
  BY <1>1, <1>2, LineOf

\* HttpClientInterceptor writes a line when a request comes in,
LEMMA ClientRequestLogWrites ==
  ASSUME NEW i
  PROVE  Line(ClientRequestLog(i), "request")
<1>1. Writes(Debug(MinLevel, "HttpClientInterceptor", "request", Str("details"), NoArg),
             MinLevel, "debug", "request")
  BY ObjectsAre, LevelsAndTexts, ShortWrites DEF Debug
<1>2. Line(Debug(MinLevel, "HttpClientInterceptor", "request", Str("details"), NoArg), "request")
  BY <1>1, LineOf
<1> QED
  BY <1>2, LineEmpty DEF ClientRequestLog

\* and one of how it went.
LEMMA ClientLogWrites ==
  ASSUME NEW i, NEW e
  PROVE  /\ ClientSaw(i, e).class = "returned" => Line(ClientLog(i, e), "response")
         /\ ClientSaw(i, e).class # "returned" => Line(ClientLog(i, e), "request failed")
         /\ i.client /\ Visible(i) => Len(ClientLog(i, e)) = 1
<1>1. CASE ~ i.client
  <2>1. ClientLog(i, e) = <<>>
    BY <1>1 DEF ClientLog
  <2>2. Line(<<>>, "response") /\ Line(<<>>, "request failed")
    BY LineEmpty
  <2> QED
    BY <1>1, <2>1, <2>2
<1>2. CASE i.client /\ ClientSaw(i, e).class = "returned"
  <2>1. Writes(ClientLog(i, e), MinLevel, "info", "response")
    BY <1>2, ObjectsAre, LevelsAndTexts, ShortWrites DEF ClientLog, Info
  <2>2. Visible(i) => LevelOf["info"] >= MinLevel
    BY LevelIs DEF Visible
  <2> QED
    BY <1>2, <2>1, <2>2, LineOf
<1>3. CASE i.client /\ ClientSaw(i, e).class # "returned"
  <2>1. Writes(ClientLog(i, e), MinLevel, "error", "request failed")
    BY <1>3, ObjectsAre, LevelsAndTexts, LongWrites DEF ClientLog, Error
  <2>2. Visible(i) => LevelOf["error"] >= MinLevel
    BY LevelIs DEF Visible
  <2> QED
    BY <1>3, <2>1, <2>2, LineOf
<1> QED
  BY <1>1, <1>2, <1>3

\* LoggingInterceptor writes a line of how a request went.
LEMMA LoggedWrites ==
  ASSUME NEW i, NEW e
  PROVE  /\ Observed(e).class = "returned" => Line(Logged(e, i), "completed")
         /\ Observed(e).class # "returned" => Line(Logged(e, i), "failed")
         /\ Visible(i) => Len(Logged(e, i)) = 1
<1>1. CASE Observed(e).class = "returned"
  BY <1>1, LogFnWrites, LevelsAndTexts DEF Logged
<1>2. CASE Observed(e).class # "returned"
  <2> DEFINE s == Error(MinLevel, "AppLogger", "failed", Str("LoggingInterceptor"), NoArg, NoArg)
  <2>1. Writes(s, MinLevel, "error", "failed")
    BY ObjectsAre, LevelsAndTexts, LongWrites DEF Error
  <2>2. Visible(i) => LevelOf["error"] >= MinLevel
    BY LevelIs DEF Visible
  <2> HIDE DEF s
  <2>3. Line(s, "failed") /\ (Visible(i) => Len(s) = 1)
    BY <2>1, <2>2, LineOf
  <2> QED
    BY <1>2, <2>3 DEF Logged, s
<1> QED
  BY <1>1, <1>2

\* A line is of its kind only.
LEMMA OnlyLine ==
  ASSUME NEW s, NEW what, Line(s, what), NEW whats, what \in whats
  PROVE  Only(s, whats)
BY DEF Line, Only

\* Nothing is of any kind.
LEMMA OnlyEmpty == ASSUME NEW whats PROVE Only(<<>>, whats)
<1>1. <<>> \in Seq(LogEntries) /\ DOMAIN <<>> = {}
  BY EmptySeq
<1> QED
  BY <1>1 DEF Only

\* Entries of one kind are not found among those of another.
LEMMA OnlyPlaces ==
  ASSUME NEW s, NEW whats, Only(s, whats), NEW others, whats \cap others = {}
  PROVE  Places(s, others) = {}
BY DEF Only, Places

GuardWhats == {"csrf", "csrf_violation", "metrics_access"}

\* The guards write of their own affairs only.
LEMMA GuardLogWrites ==
  ASSUME NEW i
  PROVE  Only(GuardLog(i), GuardWhats)
<1>1. "warn" \in Levels /\ "info" \in Levels
  BY LevelsAndTexts
<1>2. ASSUME NEW event \in {"csrf_violation", "metrics_access"}
      PROVE  Only(Audit(MinLevel, event), GuardWhats)
  <2>1. AuditLevel(event) \in Levels
    BY <1>1 DEF AuditLevel
  <2>2. Writes(Audit(MinLevel, event), MinLevel, AuditLevel(event), event)
    BY <2>1, ObjectsAre, LevelsAndTexts, ShortWrites DEF Audit
  <2>3. Line(Audit(MinLevel, event), event)
    BY <2>2, LineOf
  <2> QED
    BY <2>3, OnlyLine DEF GuardWhats
<1>3. Only(Warn(MinLevel, "AppLogger", "csrf", Str("CSRFGuard"), Obj(NoGraph)), GuardWhats)
  <2>1. Writes(Warn(MinLevel, "AppLogger", "csrf", Str("CSRFGuard"), Obj(NoGraph)), MinLevel, "warn", "csrf")
    BY ObjectsAre, LevelsAndTexts, ShortWrites DEF Warn
  <2>2. Line(Warn(MinLevel, "AppLogger", "csrf", Str("CSRFGuard"), Obj(NoGraph)), "csrf")
    BY <2>1, LineOf
  <2> QED
    BY <2>2, OnlyLine DEF GuardWhats
<1>4. CASE i.guard = "csrf" /\ ~ Admits(i)
  <2>1. GuardLog(i) = Audit(MinLevel, "csrf_violation")
                      \o Warn(MinLevel, "AppLogger", "csrf", Str("CSRFGuard"), Obj(NoGraph))
    BY <1>4 DEF GuardLog
  <2> QED
    BY <1>2, <1>3, <2>1, OnlyConcat
<1>5. CASE i.guard = "metrics" /\ env.metricsKey /\ Admits(i)
  <2>1. GuardLog(i) = Audit(MinLevel, "metrics_access")
    BY <1>5 DEF GuardLog
  <2> QED
    BY <1>2, <2>1
<1>6. CASE ~ (i.guard = "csrf" /\ ~ Admits(i)) /\ ~ (i.guard = "metrics" /\ env.metricsKey /\ Admits(i))
  <2>1. GuardLog(i) = <<>>
    BY <1>6 DEF GuardLog
  <2> QED
    BY <2>1, OnlyEmpty
<1> QED
  BY <1>4, <1>5, <1>6

NoteWhats == {"note", "framework", "recovery"}

\* A handler that logs writes notes only, whichever way of calling the logger it takes.
LEMMA NoteEntryWrites ==
  ASSUME NEW note \in Notes
  PROVE  Only(NoteEntry(note), NoteWhats)
<1>1. /\ note.call \in {"metadata", "context", "options", "trace", "attempt", "success", "failed",
                        "framework", "bare", "verbose"}
      /\ note.g \in Graphs(STRING)
  BY PipelineAssumption DEF NoteRecords
<1>2. note.g \in Graphs(LogNames)
  BY <1>1, StringsAreNames
<1>3. Obj(note.g) \in Arguments /\ Options("Orders", note.g, "none") \in Arguments
  <2>1. "Orders" \in Texts /\ "none" \in Texts
    BY LevelsAndTexts
  <2>2. \A g \in Graphs(LogNames), x, t \in Texts : Options(x, g, t) \in Arguments
    BY DEF Arguments
  <2>3. Obj(note.g) \in Arguments
    BY <1>2, ObjectsAre
  <2> QED
    BY <1>2, <2>1, <2>2, <2>3
<1>4. ASSUME NEW s, NEW level, NEW what \in NoteWhats, Writes(s, MinLevel, level, what)
      PROVE  Only(s, NoteWhats)
  <2>1. Line(s, what)
    BY <1>4, LineOf
  <2> QED
    BY <2>1, OnlyLine
<1>5. CASE note.call = "metadata"
  <2>1. Writes(NoteEntry(note), MinLevel, "info", "note")
    BY <1>3, <1>5, ObjectsAre, LevelsAndTexts, ShortWrites DEF NoteEntry, Info
  <2> QED
    BY <1>4, <2>1 DEF NoteWhats
<1>6. CASE note.call = "context"
  <2>1. Writes(NoteEntry(note), MinLevel, "warn", "note")
    BY <1>3, <1>6, ObjectsAre, LevelsAndTexts, ShortWrites DEF NoteEntry, Warn
  <2> QED
    BY <1>4, <2>1 DEF NoteWhats
<1>7. CASE note.call = "options"
  <2>1. Writes(NoteEntry(note), MinLevel, "debug", "note")
    BY <1>3, <1>7, ObjectsAre, LevelsAndTexts, ShortWrites DEF NoteEntry, Debug
  <2> QED
    BY <1>4, <2>1 DEF NoteWhats
<1>8. CASE note.call = "trace"
  <2>1. Writes(NoteEntry(note), MinLevel, "error", "note")
    BY <1>3, <1>8, ObjectsAre, LevelsAndTexts, LongWrites DEF NoteEntry, Error
  <2> QED
    BY <1>4, <2>1 DEF NoteWhats
<1>9. CASE note.call \in {"attempt", "success", "failed"}
  <2>1. \E level \in Levels : Writes(LogRecovery(MinLevel, note.call), MinLevel, level, "recovery")
    BY <1>9, LogRecoveryWrites
  <2>2. NoteEntry(note) = LogRecovery(MinLevel, note.call)
    BY <1>9 DEF NoteEntry
  <2> QED
    BY <1>4, <2>1, <2>2 DEF NoteWhats
<1>10. CASE note.call \in {"framework", "bare", "verbose"}
  <2>1. \E level \in Levels : Writes(NoteEntry(note), MinLevel, level, "framework")
    <3>1. CASE note.call = "framework"
      BY <3>1, AdapterWrites, LevelsAndTexts DEF NoteEntry
    <3>2. CASE note.call = "bare"
      BY <3>2, AdapterWrites, LevelsAndTexts DEF NoteEntry
    <3>3. CASE note.call = "verbose"
      BY <3>3, AdapterWrites, LevelsAndTexts DEF NoteEntry
    <3> QED
      BY <1>10, <3>1, <3>2, <3>3
  <2> QED
    BY <1>4, <2>1 DEF NoteWhats
<1> QED
  BY <1>1, <1>5, <1>6, <1>7, <1>8, <1>9, <1>10

-----------------------------------------------------------------------------
(* Steps of a request                                                      *)

\* What is known of a request depends on nothing else that changes but the deployment, which does not.
LEMMA Moved ==
  ASSUME env' = env, NEW st, NEW i, NEW c, NEW o, NEW a, NEW j, NEW s,
         RequestOK(st, i, c, o, a, j, s)
  PROVE  RequestOK(st, i, c, o, a, j, s)'
<1>1. MinLevel' = MinLevel
  BY DEF MinLevel
<1>2. Admits(i)' = Admits(i)
  BY DEF Admits
<1>3. Middleware(i)' = Middleware(i)
  BY DEF Middleware, AllowedOrigin
<1>4. Visible(i)' = Visible(i)
  BY <1>1 DEF Visible
<1>5. Begun(i, j)' = Begun(i, j)
  BY <1>4 DEF Begun
<1>6. WellEnded(i, o, a, j, s)' = WellEnded(i, o, a, j, s)
  <2>1. Success(i, o)' = Success(i, o) /\ Intercepts(i)' = Intercepts(i)
    BY <1>2, <1>3 DEF Success, Intercepts
  <2>2. KeptIn(i, o, a)' = KeptIn(i, o, a) /\ DiscreetIn(o, a)' = DiscreetIn(o, a)
    BY <2>1 DEF KeptIn, DiscreetIn
  <2>3. MeasuredIn(i, o, a, s)' = MeasuredIn(i, o, a, s)
    BY <2>1 DEF MeasuredIn
  <2>4. \A client, how : StoryIn(i, j, client, how)' = StoryIn(i, j, client, how)
    BY <1>4 DEF StoryIn
  <2>5. ToldIn(i, o, a, j)' = ToldIn(i, o, a, j)
    BY <1>1, <2>1, <2>4 DEF ToldIn
  <2> QED
    BY <2>2, <2>3, <2>5 DEF WellEnded
<1> QED
  BY <1>2, <1>3, <1>5, <1>6 DEF RequestOK

\* A step moves one request and leaves the others where they are.
LEMMA RequestMoves ==
  ASSUME AllOK, env' = env, Framed', AllWhole', NEW r \in Requests,
         RequestOK(stage'[r], in'[r], cleaned'[r], outcome'[r], answer'[r], journal'[r], samples'[r]),
         \A q \in Requests \ {r} :
           /\ stage'[q] = stage[q] /\ in'[q] = in[q] /\ cleaned'[q] = cleaned[q]
           /\ outcome'[q] = outcome[q] /\ answer'[q] = answer[q]
           /\ journal'[q] = journal[q] /\ samples'[q] = samples[q]
  PROVE  AllOK'
<1>1. ASSUME NEW q \in Requests
      PROVE  RequestOK(stage'[q], in'[q], cleaned'[q], outcome'[q], answer'[q], journal'[q], samples'[q])
  BY DEF AllOK
<1>2. ASSUME NEW q \in Requests
      PROVE  RequestOK(stage[q], in[q], cleaned[q], outcome[q], answer[q], journal[q], samples[q])'
  BY <1>1, Moved
<1> QED
  BY <1>2 DEF AllOK

\* One sequence of entries after another.  (The provers take every \o apart that they see.)
Then(s, t) == s \o t

\* Where an entry is found in one sequence followed by another.
LEMMA ThenIs ==
  ASSUME NEW s \in Seq(LogEntries), NEW t \in Seq(LogEntries)
  PROVE  /\ Then(s, t) \in Seq(LogEntries)
         /\ Len(s) \in Nat /\ DOMAIN s = 1 .. Len(s) /\ Len(t) \in Nat /\ DOMAIN t = 1 .. Len(t)
         /\ \A k \in DOMAIN s : k \in DOMAIN Then(s, t) /\ Then(s, t)[k] = s[k]
         /\ \A k \in DOMAIN t : Len(s) + k \in DOMAIN Then(s, t) /\ Then(s, t)[Len(s) + k] = t[k]
         /\ \A k \in DOMAIN Then(s, t) :
              \/ k \in DOMAIN s
              \/ k > Len(s) /\ k - Len(s) \in DOMAIN t /\ k = Len(s) + (k - Len(s))
BY ConcatIs DEF Then

\* Three sequences, one after the other.
LEMMA ThenAssociative ==
  ASSUME NEW a \in Seq(LogEntries), NEW b \in Seq(LogEntries), NEW c \in Seq(LogEntries)
  PROVE  Then(Then(a, b), c) = Then(a, Then(b, c))
BY ConcatAssociative DEF Then

\* Four.
LEMMA FourParts ==
  ASSUME NEW a \in Seq(LogEntries), NEW b \in Seq(LogEntries),
         NEW c \in Seq(LogEntries), NEW d \in Seq(LogEntries)
  PROVE  /\ Then(Then(a, Then(b, c)), d) = Then(a, Then(Then(b, c), d))
         /\ Then(Then(a, Then(b, c)), d) = Then(Then(a, b), Then(c, d))
<1>1. Then(b, c) \in Seq(LogEntries) /\ Then(c, d) \in Seq(LogEntries)
  BY ThenIs
<1>2. Then(Then(b, c), d) = Then(b, Then(c, d))
  BY ThenAssociative
<1>3. Then(Then(a, Then(b, c)), d) = Then(a, Then(Then(b, c), d))
  BY <1>1, ThenAssociative
<1>4. Then(Then(a, b), Then(c, d)) = Then(a, Then(b, Then(c, d)))
  BY <1>1, ThenAssociative
<1> QED
  BY <1>2, <1>3, <1>4

\* Entries of these kinds are found at p alone, and nowhere.
FoundAt(s, whats, p) == Places(s, whats) = {p}
FoundNowhere(s, whats) == Places(s, whats) = {}

\* They are found in a sequence where they are found in one half of it, when the other
\* has none.
LEMMA FoundThen ==
  ASSUME NEW s \in Seq(LogEntries), NEW t \in Seq(LogEntries), NEW whats, NEW p
  PROVE  /\ FoundAt(s, whats, p) /\ FoundNowhere(t, whats)
              => FoundAt(Then(s, t), whats, p) /\ Then(s, t)[p] = s[p]
         /\ FoundNowhere(s, whats) /\ FoundAt(t, whats, p)
              => FoundAt(Then(s, t), whats, Len(s) + p) /\ Then(s, t)[Len(s) + p] = t[p]
<1>1. Places(Then(s, t), whats) = Places(s, whats) \cup {Len(s) + k : k \in Places(t, whats)}
  BY ConcatPlaces DEF Then
<1>2. ASSUME Places(s, whats) = {p}, Places(t, whats) = {}
      PROVE  Places(Then(s, t), whats) = {p} /\ Then(s, t)[p] = s[p]
  <2>1. p \in DOMAIN s
    BY <1>2 DEF Places
  <2> QED
    BY <1>1, <1>2, <2>1, ThenIs
<1>3. ASSUME Places(s, whats) = {}, Places(t, whats) = {p}
      PROVE  Places(Then(s, t), whats) = {Len(s) + p} /\ Then(s, t)[Len(s) + p] = t[p]
  <2>1. p \in DOMAIN t
    BY <1>3 DEF Places
  <2> QED
    BY <1>1, <1>3, <2>1, ThenIs
<1> QED
  BY <1>2, <1>3 DEF FoundAt, FoundNowhere

\* One sequence of entries of these kinds after another.
LEMMA OnlyThen ==
  ASSUME NEW whats, NEW s, NEW t, Only(s, whats), Only(t, whats)
  PROVE  Only(Then(s, t), whats)
BY OnlyConcat DEF Then

\* Two stories, one after the other.
LEMMA TellsOf ==
  ASSUME NEW s \in Seq(LogEntries), NEW t \in Seq(LogEntries), NEW first, NEW second, NEW others,
         NEW p, NEW q, FoundAt(s, {first, second} \cup others, p), s[p].what = first,
         FoundAt(t, {first, second} \cup others, q), t[q].what = second
  PROVE  Tells(Then(s, t), first, second, others)
<1> DEFINE whats == {first, second} \cup others
<1>1. p \in DOMAIN s /\ q \in DOMAIN t
  BY DEF Places, FoundAt
<1>2. p \in 1 .. Len(s) /\ q \in 1 .. Len(t) /\ Len(s) \in Nat
  BY <1>1, ThenIs
<1>3. /\ p \in DOMAIN (Then(s, t)) /\ Then(s, t)[p].what = first
      /\ Len(s) + q \in DOMAIN (Then(s, t)) /\ Then(s, t)[Len(s) + q].what = second
  BY <1>1, ThenIs
<1>4. Places(Then(s, t), whats) = {p, Len(s) + q}
  <2> HIDE DEF whats
  <2>1. Places(Then(s, t), whats) = Places(s, whats) \cup {Len(s) + k : k \in Places(t, whats)}
    BY ConcatPlaces DEF Then
  <2> QED
    BY <2>1 DEF whats, FoundAt
<1>5. p < Len(s) + q
  BY <1>2
<1> QED
  BY <1>3, <1>4, <1>5 DEF Tells

-----------------------------------------------------------------------------
(* How a request ends                                                      *)

\* What an interceptor makes of a failure of its own is no failure that a retry may cure.
LEMMA NewErrorIs ==
  /\ NewError("error", 0, {}).class = "error"
  /\ IsOutcome(NewError("error", 0, {})) /\ ~ Curable(NewError("error", 0, {}))
<1> DEFINE e == NewError("error", 0, {})
<1>1. /\ e.class = "error" /\ e.status = 0 /\ e.code = "none" /\ e.words = {} /\ e.context = NoGraph
  BY DEF NewError
<1>2. ~ Says(e, {"timeout", "timed out", "network", "connection", "rate limit", "too many requests"})
  BY <1>1 DEF Says
<1> HIDE DEF e
<1>3. IsOutcome(e)
  BY <1>1, NoGraphIs DEF IsOutcome
<1>4. ~ Curable(e)
  <2>1. 0 \notin {429, 502, 503, 504}
    OBVIOUS
  <2> QED
    BY <1>1, <1>2, <2>1 DEF Curable, WayBlamed
<1> QED
  BY <1>1, <1>3, <1>4 DEF e

\* What HttpClientInterceptor and HTTPMetricsInterceptor make of what a handler did.
LEMMA SeenIs ==
  ASSUME NEW i, NEW made, IsOutcome(made), i.client \in BOOLEAN, i.void \in BOOLEAN,
         env.metricsFound \in BOOLEAN
  PROVE  LET e == ClientSaw(i, made)
             seen == Observed(e)
         IN /\ IsOutcome(e) /\ IsOutcome(seen)
            /\ seen.class = "returned"
                 <=> made.class = "returned" /\ env.metricsFound /\ ~ (i.client /\ i.void)
            /\ e.class = "returned" => made.class = "returned"
            /\ made.class # "returned" => e = made
            /\ env.metricsFound => seen = e
            /\ e.class \in {"app", "http"} => e = made
            /\ seen.class \in {"app", "http"} => seen = made
            /\ Curable(seen) => seen = made
<1> DEFINE e == ClientSaw(i, made)
           seen == Observed(e)
           x == NewError("error", 0, {})
<1>1. x.class = "error" /\ IsOutcome(x) /\ ~ Curable(x)
  BY NewErrorIs
<1>2. /\ i.client /\ i.void /\ made.class = "returned" => e = x
      /\ ~ (i.client /\ i.void /\ made.class = "returned") => e = made
  BY DEF ClientSaw
<1>3. /\ env.metricsFound => seen = e
      /\ ~ env.metricsFound => seen = x
  BY DEF Observed, UnknownElement
<1> HIDE DEF e, seen, x
<1>4. IsOutcome(e) /\ IsOutcome(seen)
  BY <1>1, <1>2, <1>3
<1>5. seen.class = "returned" <=> made.class = "returned" /\ env.metricsFound /\ ~ (i.client /\ i.void)
  BY <1>1, <1>2, <1>3
<1>6. /\ e.class = "returned" => made.class = "returned"
      /\ made.class # "returned" => e = made
      /\ e.class \in {"app", "http"} => e = made
      /\ seen.class \in {"app", "http"} => seen = made
      /\ Curable(seen) => seen = made
  BY <1>1, <1>2, <1>3
<1>7. /\ IsOutcome(e) /\ IsOutcome(seen)
      /\ seen.class = "returned" <=> made.class = "returned" /\ env.metricsFound /\ ~ (i.client /\ i.void)
      /\ e.class = "returned" => made.class = "returned"
      /\ made.class # "returned" => e = made
      /\ env.metricsFound => seen = e
      /\ e.class \in {"app", "http"} => e = made
      /\ seen.class \in {"app", "http"} => seen = made
      /\ Curable(seen) => seen = made
  BY <1>3, <1>4, <1>5, <1>6
<1> QED
  BY <1>7 DEF e, seen

ClientWhats == {"response", "request failed"}
EndWhats == {"completed", "failed"}
FilterWhats == {"category", "transient exception", "permanent exception", "framework"}

\* The log of a request that has ended, of which f is the filter's part.
Recounts(i, all, client, how, f) ==
  /\ all \in Seq(LogEntries)
  /\ Visible(i) => Tells(all, "incoming", how, {"completed", "failed"})
  /\ i.client /\ Visible(i) => Tells(all, client, how, {"response", "request failed"})
  /\ \A k \in DOMAIN all : all[k].what \in Verdicts
       => \E m \in DOMAIN f : f[m].what = all[k].what
  /\ \A k \in DOMAIN f : \E m \in DOMAIN all : all[m] = f[k]

\* What is written after the handler: w by HttpClientInterceptor, l by LoggingInterceptor,
\* f by a filter.
LEMMA Story ==
  ASSUME NEW i, NEW j \in Seq(LogEntries), Begun(i, j), NEW w, NEW l, NEW f,
         NEW client \in ClientWhats, Line(w, client), i.client /\ Visible(i) => Len(w) = 1,
         NEW how \in EndWhats, Line(l, how),
         Visible(i) => Len(l) = 1, Only(f, FilterWhats)
  PROVE  Recounts(i, Then(Then(j, Then(w, l)), f), client, how, f)
<1> DEFINE s == Then(w, l)
           before == Then(j, s)
           all == Then(before, f)
<1>1. w \in Seq(LogEntries) /\ l \in Seq(LogEntries) /\ f \in Seq(LogEntries)
  BY DEF Line, Only
<1>2. s \in Seq(LogEntries) /\ Then(l, f) \in Seq(LogEntries) /\ Then(j, w) \in Seq(LogEntries)
  BY <1>1, ThenIs
<1>3. before \in Seq(LogEntries) /\ Then(s, f) \in Seq(LogEntries)
  <2> HIDE DEF s
  <2> QED
    BY <1>1, <1>2, ThenIs
<1>4. all \in Seq(LogEntries)
  <2> HIDE DEF before
  <2> QED
    BY <1>1, <1>3, ThenIs
<1>5. all = Then(j, Then(s, f)) /\ all = Then(Then(j, w), Then(l, f))
  BY <1>1, FourParts
<1>8. FoundNowhere(f, {"incoming", how} \cup {"completed", "failed"})
      /\ FoundNowhere(f, {client, how} \cup {"response", "request failed"})
  <2>1. FilterWhats \cap ({"incoming", how} \cup {"completed", "failed"}) = {}
        /\ FilterWhats \cap ({client, how} \cup {"response", "request failed"}) = {}
    BY DEF FilterWhats, ClientWhats, EndWhats
  <2> QED
    BY <2>1, OnlyPlaces DEF FoundNowhere
<1>9. ASSUME Visible(i) PROVE Tells(all, "incoming", how, {"completed", "failed"})
  <2> DEFINE whats == {"incoming", how} \cup {"completed", "failed"}
  <2>1. FoundNowhere(w, whats) /\ FoundAt(l, whats, 1) /\ l[1].what = how
    <3>1. client \notin whats /\ how \in whats
      BY DEF ClientWhats, EndWhats
    <3> HIDE DEF whats
    <3> QED
      BY <1>9, <3>1, LinePlaces DEF FoundNowhere, FoundAt
  <2>2. PICK p \in DOMAIN j : Places(j, {"incoming"}) = {p}
    BY <1>9 DEF Begun
  <2>3. FoundAt(j, whats, p) /\ j[p].what = "incoming"
    <3>1. Places(j, whats) = Places(j, {"incoming"})
      BY DEF Places, Begun, EndWhats
    <3>2. p \in Places(j, {"incoming"})
      BY <2>2
    <3> QED
      BY <2>2, <3>1, <3>2 DEF Places, FoundAt
  <2> DEFINE q == Len(w) + 1
  <2>4. FoundAt(s, whats, q) /\ s[q].what = how
    <3> HIDE DEF whats
    <3>1. FoundAt(Then(w, l), whats, Len(w) + 1) /\ Then(w, l)[Len(w) + 1] = l[1]
      BY <1>1, <2>1, FoundThen
    <3> QED
      BY <2>1, <3>1
  <2>5. FoundAt(Then(s, f), whats, q) /\ Then(s, f)[q].what = how
    <3> HIDE DEF s, q
    <3>1. FoundNowhere(f, whats)
      BY <1>8
    <3> HIDE DEF whats
    <3>2. FoundAt(Then(s, f), whats, q) /\ Then(s, f)[q] = s[q]
      BY <1>1, <1>2, <2>4, <3>1, FoundThen
    <3> QED
      BY <2>4, <3>2
  <2> DEFINE t == Then(s, f)
  <2>6. Tells(Then(j, t), "incoming", how, {"completed", "failed"})
    <3>1. t \in Seq(LogEntries) /\ FoundAt(t, whats, q) /\ t[q].what = how
      BY <1>3, <2>5
    <3> HIDE DEF t, q
    <3> QED
      BY <2>3, <3>1, TellsOf
  <2> QED
    BY <1>5, <2>6
<1>10. ASSUME i.client, Visible(i) PROVE Tells(all, client, how, {"response", "request failed"})
  <2> DEFINE whats == {client, how} \cup {"response", "request failed"}
             a == Then(j, w)
             b == Then(l, f)
             p == Len(j) + 1
  <2>1. FoundAt(w, whats, 1) /\ w[1].what = client /\ FoundAt(l, whats, 1) /\ l[1].what = how
    <3>1. client \in whats /\ how \in whats
      OBVIOUS
    <3> HIDE DEF whats
    <3> QED
      BY <1>10, <3>1, LinePlaces DEF FoundNowhere, FoundAt
  <2>2. FoundNowhere(j, whats)
    BY DEF Places, Begun, ClientWhats, EndWhats, FoundNowhere
  <2>3. FoundAt(a, whats, p) /\ a[p].what = client
    <3> HIDE DEF whats
    <3>1. FoundAt(Then(j, w), whats, Len(j) + 1) /\ Then(j, w)[Len(j) + 1] = w[1]
      BY <1>1, <2>1, <2>2, FoundThen
    <3> QED
      BY <2>1, <3>1
  <2>4. FoundAt(b, whats, 1) /\ b[1].what = how
    <3>1. FoundNowhere(f, whats)
      BY <1>8
    <3> HIDE DEF whats
    <3>2. FoundAt(Then(l, f), whats, 1) /\ Then(l, f)[1] = l[1]
      BY <1>1, <2>1, <3>1, FoundThen
    <3> QED
      BY <2>1, <3>2
  <2>5. Tells(Then(a, b), client, how, {"response", "request failed"})
    <3>1. a \in Seq(LogEntries) /\ b \in Seq(LogEntries)
      BY <1>2
    <3> HIDE DEF a, b, p
    <3> QED
      BY <2>3, <2>4, <3>1, TellsOf
  <2> QED
    BY <1>5, <2>5
<1>11. ASSUME NEW k \in DOMAIN all, all[k].what \in Verdicts
       PROVE  \E m \in DOMAIN f : f[m].what = all[k].what
  <2>1. Only(before, LogWhats \ Verdicts)
    <3>2. Only(w, LogWhats \ Verdicts) /\ Only(l, LogWhats \ Verdicts)
      <4>1. client \in LogWhats \ Verdicts /\ how \in LogWhats \ Verdicts
        BY DEF LogWhats, ClientWhats, EndWhats, Verdicts
      <4> QED
        BY <4>1, OnlyLine
    <3>3. Only(j, LogWhats \ Verdicts)
      <4>1. \A m \in DOMAIN j : j[m] \in LogEntries
        BY ElementOfSeq
      <4> QED
        BY <4>1 DEF Only, Begun, LogEntries
    <3> QED
      BY <3>2, <3>3, OnlyThen
  <2> HIDE DEF before
  <2>2. \/ k \in DOMAIN before
        \/ k - Len(before) \in DOMAIN f /\ k = Len(before) + (k - Len(before))
    BY <1>1, <1>3, ThenIs
  <2>3. CASE k \in DOMAIN before
    <3>1. all[k] = before[k]
      BY <1>1, <1>3, <2>3, ThenIs
    <3> QED
      BY <1>11, <2>1, <2>3, <3>1 DEF Only
  <2>4. CASE k - Len(before) \in DOMAIN f /\ k = Len(before) + (k - Len(before))
    <3>1. all[k] = f[k - Len(before)]
      BY <1>1, <1>3, <2>4, ThenIs
    <3> QED
      BY <1>11, <2>4, <3>1
  <2> QED
    BY <2>2, <2>3, <2>4
<1>12. ASSUME NEW k \in DOMAIN f PROVE \E m \in DOMAIN all : all[m] = f[k]
  <2> HIDE DEF before
  <2>1. Len(before) + k \in DOMAIN all /\ all[Len(before) + k] = f[k]
    BY <1>1, <1>3, ThenIs
  <2> QED
    BY <2>1
<1> HIDE DEF all
<1>13. Recounts(i, all, client, how, f)
  BY <1>4, <1>9, <1>10, <1>11, <1>12 DEF Recounts
<1> QED
  BY <1>13 DEF all, before, s

\* What the interceptors record of a request i whose handler made e.
Recorded(i, e) ==
  [http |-> IF env.metricsFound /\ env.metricsEnabled THEN <<Sample(MetricsStatus(i, e))>> ELSE <<>>,
   registry |-> IF i.instrumented THEN <<Sample(InstrumentationStatus(i, e))>> ELSE <<>>]

\* Statuses that HTTP knows are recorded, once by each interceptor that is there.
LEMMA RecordedIs ==
  ASSUME NEW i \in Inputs, NEW e, IsOutcome(e)
  PROVE  /\ Recorded(i, e) \in [http : Seq(Samples), registry : Seq(Samples)]
         /\ Len(Recorded(i, e).http) = IF env.metricsFound /\ env.metricsEnabled THEN 1 ELSE 0
         /\ Len(Recorded(i, e).registry) = IF i.instrumented THEN 1 ELSE 0
         /\ \A x \in ToSet(Recorded(i, e).http) : x.status = MetricsStatus(i, e)
         /\ \A x \in ToSet(Recorded(i, e).registry) : x.status = InstrumentationStatus(i, e)
<1> DEFINE h == Sample(MetricsStatus(i, e))
           g == Sample(InstrumentationStatus(i, e))
<1>1. MetricsStatus(i, e) \in 200 .. 599 /\ InstrumentationStatus(i, e) \in 200 .. 599
  BY DEF MetricsStatus, InstrumentationStatus, ResponseStatus, IsOutcome
<1>2. h \in Samples /\ g \in Samples /\ h.status = MetricsStatus(i, e) /\ g.status = InstrumentationStatus(i, e)
  <2>1. ASSUME NEW n \in 200 .. 599 PROVE Sample(n) \in Samples /\ Sample(n).status = n
    BY DEF Sample, StatusClass, Samples
  <2> QED
    BY <1>1, <2>1
<1> HIDE DEF h, g
<1>3. ASSUME NEW x \in Samples
      PROVE  <<x>> \in Seq(Samples) /\ Len(<<x>>) = 1 /\ \A y \in ToSet(<<x>>) : y = x
  <2>1. <<x>> \in Seq(Samples) /\ Len(<<x>>) = 1 /\ <<x>>[1] = x /\ DOMAIN <<x>> = {1}
    BY OneIsSequence
  <2> QED
    BY <2>1 DEF ToSet
<1>4. <<>> \in Seq(Samples) /\ Len(<<>>) = 0 /\ ToSet(<<>>) = {}
  BY EmptySeq DEF ToSet
<1> DEFINE a == IF env.metricsFound /\ env.metricsEnabled THEN <<h>> ELSE <<>>
           b == IF i.instrumented THEN <<g>> ELSE <<>>
<1>5. /\ a \in Seq(Samples) /\ Len(a) = IF env.metricsFound /\ env.metricsEnabled THEN 1 ELSE 0
      /\ \A x \in ToSet(a) : x = h
  <2>1. CASE env.metricsFound /\ env.metricsEnabled
    BY <1>2, <1>3, <2>1
  <2>2. CASE ~ (env.metricsFound /\ env.metricsEnabled)
    BY <1>4, <2>2
  <2> QED
    BY <2>1, <2>2
<1>6. /\ b \in Seq(Samples) /\ Len(b) = IF i.instrumented THEN 1 ELSE 0
      /\ \A x \in ToSet(b) : x = g
  <2>1. CASE i.instrumented
    BY <1>2, <1>3, <2>1
  <2>2. CASE ~ i.instrumented
    BY <1>4, <2>2
  <2> QED
    BY <2>1, <2>2
<1>7. Recorded(i, e) = [http |-> a, registry |-> b]
  BY DEF Recorded, a, b, h, g
<1> HIDE DEF a, b
<1>8. Recorded(i, e).http = a /\ Recorded(i, e).registry = b
  BY <1>7
<1> QED
  BY <1>2, <1>5, <1>6, <1>7, <1>8

\* The fields of a request that arrived.
LEMMA InputIs ==
  ASSUME NEW i \in Inputs
  PROVE  /\ i.client \in BOOLEAN /\ i.void \in BOOLEAN /\ i.filtered \in BOOLEAN
         /\ i.payload \in Graphs(STRING) /\ i # NoInput
BY PipelineAssumption DEF InputRecords

\* The fields of a deployment.
LEMMA DeploymentIs ==
  ASSUME env \in Deployments
  PROVE  env.metricsFound \in BOOLEAN /\ env.production \in BOOLEAN
BY PipelineAssumption DEF DeploymentRecords

Sent(i) == [NoAnswer EXCEPT !.status = ResponseStatus(i), !.message = "own"]

\* What is sent when nothing threw.
LEMMA SentIs ==
  ASSUME NEW i
  PROVE  /\ Sent(i).status = ResponseStatus(i) /\ Sent(i).status \in {200, 201}
         /\ ~ Sent(i).stack /\ Sent(i).context = NoGraph
BY DEF Sent, NoAnswer, ResponseStatus

\* A request ends as it should when nothing threw.
LEMMA SuccessEnds ==
  ASSUME env \in Deployments, NEW i \in Inputs, NEW made, IsOutcome(made),
         NEW j \in Seq(LogEntries), Begun(i, j), Middleware(i) = NoOutcome, Admits(i),
         Observed(ClientSaw(i, made)).class = "returned"
  PROVE  LET all == Then(j, Then(ClientLog(i, made), Logged(ClientSaw(i, made), i)))
         IN /\ all \in Seq(LogEntries)
            /\ WellEnded(i, made, Sent(i), all, Recorded(i, ClientSaw(i, made)))
<1> DEFINE e == ClientSaw(i, made)
           seen == Observed(e)
           w == ClientLog(i, made)
           l == Logged(e, i)
           all == Then(j, Then(w, l))
           a == Sent(i)
           s == Recorded(i, e)
<1>1. /\ i.client \in BOOLEAN /\ i.void \in BOOLEAN /\ env.metricsFound \in BOOLEAN
  BY InputIs, DeploymentIs
<1>2. /\ IsOutcome(e) /\ made.class = "returned" /\ env.metricsFound /\ ~ (i.client /\ i.void)
      /\ e.class = "returned"
  BY <1>1, SeenIs
<1>3. /\ Line(w, "response") /\ (i.client /\ Visible(i) => Len(w) = 1)
      /\ Line(l, "completed") /\ (Visible(i) => Len(l) = 1)
  <2>1. Line(w, "response")
    BY <1>2, ClientLogWrites
  <2>4. i.client /\ Visible(i) => Len(w) = 1
    BY ClientLogWrites
  <2>2. seen.class = "returned"
    OBVIOUS
  <2> HIDE DEF e
  <2>3. Line(l, "completed") /\ (Visible(i) => Len(l) = 1)
    BY <2>2, LoggedWrites
  <2> QED
    BY <2>1, <2>3, <2>4
<1>4. /\ Only(<<>>, FilterWhats) /\ DOMAIN <<>> = {}
  BY OnlyEmpty
<1>5. a.status \in {200, 201} /\ a.status = ResponseStatus(i) /\ ~ a.stack /\ a.context = NoGraph
  BY SentIs
<1>6. /\ Len(s.http) = IF env.metricsFound /\ env.metricsEnabled THEN 1 ELSE 0
      /\ Len(s.registry) = IF i.instrumented THEN 1 ELSE 0
      /\ \A x \in ToSet(s.http) \cup ToSet(s.registry) : x.status = a.status
  <2>1. MetricsStatus(i, e) = a.status /\ InstrumentationStatus(i, e) = a.status
    BY <1>2, <1>5 DEF MetricsStatus, InstrumentationStatus
  <2> HIDE DEF e, a
  <2> QED
    BY <1>2, <2>1, RecordedIs
<1>7. "response" \in ClientWhats /\ "completed" \in EndWhats
  BY DEF ClientWhats, EndWhats
<1> HIDE DEF e, seen, w, l, a, s
<1> DEFINE full == Then(all, <<>>)
<1>8. Recounts(i, full, "response", "completed", <<>>)
  BY <1>3, <1>4, <1>7, Story DEF all
<1> HIDE DEF full
<1>9. all \in Seq(LogEntries)
  BY <1>3, ThenIs DEF Line
<1>10. full = all
  <2> HIDE DEF all
  <2> QED
    BY <1>9, ConcatEmptySeq DEF Then, full
<1> HIDE DEF all
<1>11. \A k \in DOMAIN all : all[k].what # "transient exception" /\ all[k].what # "permanent exception"
  BY <1>4, <1>8, <1>10 DEF Recounts, Verdicts
<1>12. Success(i, made) /\ Intercepts(i)
  BY <1>2 DEF Success, Intercepts
<1>13. KeptIn(i, made, a) /\ DiscreetIn(made, a)
  BY <1>2, <1>5, <1>12 DEF KeptIn, DiscreetIn
<1>14. MeasuredIn(i, made, a, s)
  BY <1>6, <1>12 DEF MeasuredIn
<1>15. ToldIn(i, made, a, all)
  <2>1. StoryIn(i, all, "response", "completed")
    BY <1>8, <1>10 DEF StoryIn, Recounts
  <2>2. ~ (a.status >= 400) /\ ~ (a.status >= 500)
    BY <1>5
  <2> QED
    BY <1>11, <1>12, <2>1, <2>2 DEF ToldIn
<1>16. WellEnded(i, made, a, all, s)
  BY <1>13, <1>14, <1>15 DEF WellEnded
<1> QED
  BY <1>9, <1>16 DEF all, a, s, w, l, e

\* And when the handler, the pipe or an interceptor threw.
LEMMA FailureEnds ==
  ASSUME env \in Deployments, NEW i \in Inputs, NEW made, IsOutcome(made),
         NEW j \in Seq(LogEntries), Begun(i, j), Middleware(i) = NoOutcome, Admits(i),
         NEW seen, seen = Observed(ClientSaw(i, made)), seen.class # "returned",
         NEW f, Handled(i, seen, f)
  PROVE  LET all == Then(Then(j, Then(ClientLog(i, made), Logged(ClientSaw(i, made), i))), f.log)
         IN /\ all \in Seq(LogEntries)
            /\ WellEnded(i, made, f.answer, all, Recorded(i, ClientSaw(i, made)))
<1> DEFINE e == ClientSaw(i, made)
           w == ClientLog(i, made)
           l == Logged(e, i)
           lines == f.log
           all == Then(Then(j, Then(w, l)), lines)
           a == f.answer
           s == Recorded(i, e)
<1>1. /\ i.client \in BOOLEAN /\ i.void \in BOOLEAN /\ env.metricsFound \in BOOLEAN
  BY InputIs, DeploymentIs
<1>2. /\ IsOutcome(e) /\ IsOutcome(seen)
      /\ ~ (made.class = "returned" /\ env.metricsFound /\ ~ (i.client /\ i.void))
      /\ made.class # "returned" => e = made
      /\ env.metricsFound => seen = e
      /\ e.class \in {"app", "http"} => e = made
      /\ seen.class \in {"app", "http"} => seen = made
      /\ Curable(seen) => seen = made
  BY <1>1, SeenIs
<1>3. ~ Success(i, made) /\ Intercepts(i)
  BY <1>2 DEF Success, Intercepts
<1>4. Line(l, "failed") /\ (Visible(i) => Len(l) = 1)
  <2> HIDE DEF e
  <2> QED
    BY LoggedWrites DEF e
<1>5. /\ e.class = "returned" => Line(w, "response")
      /\ e.class # "returned" => Line(w, "request failed")
  BY ClientLogWrites
<1>6. i.client /\ Visible(i) => Len(w) = 1
  BY ClientLogWrites
<1>7. /\ a.status \in 400 .. 599
      /\ seen.class = "app" => a.status = seen.status
      /\ seen.class = "http" /\ (i.filtered \/ env.order[1] = "http") => a.status = seen.status
      /\ WroteFailure(seen, lines)
  BY DEF Handled
<1>8. env.production =>
        /\ ~ a.stack
        /\ a.message = "own" => seen.class \in {"app", "http"}
        /\ a.context # NoGraph => seen.class = "http"
  BY DEF Handled
<1>9. Only(lines, FilterWhats)
  BY <1>7 DEF WroteFailure, Only, FilterWhats
<1>10. "response" \in ClientWhats /\ "request failed" \in ClientWhats /\ "failed" \in EndWhats
  BY DEF ClientWhats, EndWhats
<1>11. MetricsStatus(i, e) = IF e.class = "http" THEN e.status ELSE ResponseStatus(i)
  BY DEF MetricsStatus
<1>12. InstrumentationStatus(i, e) = e.status \/ e.class # "http"
  BY DEF InstrumentationStatus
<1>13. /\ Len(s.http) = IF env.metricsFound /\ env.metricsEnabled THEN 1 ELSE 0
       /\ Len(s.registry) = IF i.instrumented THEN 1 ELSE 0
       /\ \A x \in ToSet(s.http) : x.status = MetricsStatus(i, e)
       /\ \A x \in ToSet(s.registry) : x.status = InstrumentationStatus(i, e)
  <2> HIDE DEF e
  <2> QED
    BY <1>2, RecordedIs
<1> HIDE DEF e, w, l, lines, a, s
<1>14. KeptIn(i, made, a)
  <2>1. ASSUME made.class = "app", env.metricsFound PROVE a.status = made.status
    BY <1>2, <1>7, <2>1
  <2> QED
    BY <1>3, <1>7, <2>1 DEF KeptIn
<1>15. DiscreetIn(made, a)
  BY <1>2, <1>8 DEF DiscreetIn
<1>16. MeasuredIn(i, made, a, s)
  <2>1. ASSUME made.class = "http", i.filtered \/ env.order[1] = "http", env.metricsFound
        PROVE  \A x \in ToSet(s.http) \cup ToSet(s.registry) : x.status = a.status
    <3>1. e = made /\ seen = made
      BY <1>2, <2>1
    <3>2. a.status = made.status
      BY <1>7, <2>1, <3>1
    <3>3. MetricsStatus(i, e) = a.status /\ InstrumentationStatus(i, e) = a.status
      BY <1>11, <1>12, <2>1, <3>1, <3>2
    <3> QED
      BY <1>13, <3>3
  <2> QED
    BY <1>3, <1>13, <2>1 DEF MeasuredIn
<1>17. \E client \in ClientWhats :
         /\ Line(w, client) /\ (env.metricsFound => client = "request failed")
  BY <1>2, <1>5, <1>10
<1>18. PICK client \in ClientWhats : Line(w, client) /\ (env.metricsFound => client = "request failed")
  BY <1>17
<1>19. Recounts(i, all, client, "failed", lines)
  BY <1>4, <1>6, <1>9, <1>10, <1>18, Story DEF all
<1> HIDE DEF all
<1>20. StoryIn(i, all, "request failed", "failed")
  <2>1. ASSUME i.client, Visible(i), env.metricsFound
        PROVE  Tells(all, "request failed", "failed", {"response", "request failed"})
    BY <1>18, <1>19, <2>1 DEF Recounts
  <2> QED
    BY <1>19, <2>1 DEF StoryIn, Recounts
<1>21. ASSUME NEW k \in DOMAIN all, all[k].what = "transient exception" PROVE Curable(made)
  <2>1. CategorizeError(seen).retryable
    BY <1>7, <1>19, <1>21 DEF WroteFailure, Recounts, Verdicts
  <2>2. Curable(seen)
    BY <1>2, <2>1, RetryableIsCurable DEF IsOutcome
  <2> QED
    BY <1>2, <2>2
<1>22. ASSUME NEW k \in DOMAIN all, all[k].what = "permanent exception", env.metricsFound
       PROVE  ~ Passes(made)
  <2>1. ~ CategorizeError(seen).retryable
    BY <1>7, <1>19, <1>22 DEF WroteFailure, Recounts, Verdicts
  <2>2. ~ Passes(seen)
    BY <2>1, PassesIsRetryable
  <2>3. made.class = "returned" => ~ Passes(made)
    BY DEF Passes
  <2> QED
    BY <1>2, <1>22, <2>2, <2>3
<1>23. ASSUME MinLevel <= 3 PROVE \E k \in DOMAIN all : all[k].level = "error"
  <2>1. PICK k \in DOMAIN lines : lines[k].level = "error"
    BY <1>7, <1>23 DEF WroteFailure
  <2>2. PICK m \in DOMAIN all : all[m] = lines[k]
    BY <1>19 DEF Recounts
  <2> QED
    BY <2>1, <2>2
<1>24. ToldIn(i, made, a, all)
  <2>1. \A n \in 400 .. 599 : ~ (n < 400)
    OBVIOUS
  <2>2. a.status \in 400 .. 599
    BY <1>7
  <2>3. ~ (a.status < 400)
    BY <2>1, <2>2
  <2> QED
    BY <1>3, <1>20, <1>21, <1>22, <1>23, <2>3 DEF ToldIn
<1>25. WellEnded(i, made, a, all, s)
  BY <1>14, <1>15, <1>16, <1>24 DEF WellEnded
<1>26. all \in Seq(LogEntries)
  BY <1>19 DEF Recounts
<1> QED
  BY <1>25, <1>26 DEF all, a, s, w, l, lines, e

\* The first element of a sequence.
LEMMA AppendOne ==
  ASSUME NEW S, NEW x \in S
  PROVE  Append(<<>>, x) = <<x>>
<1>1. <<>> \in Seq(S) /\ Len(<<>>) = 0
  BY EmptySeq
<1>2. /\ Append(<<>>, x) \in Seq(S) /\ Len(Append(<<>>, x)) = 1 /\ Append(<<>>, x)[1] = x
  BY <1>1, AppendProperties
<1>3. <<x>> \in Seq(S) /\ Len(<<x>>) = 1 /\ <<x>>[1] = x
  BY OneIsSequence
<1> QED
  BY <1>2, <1>3, SeqEqual

\* What the handler made of a request ends as it should, through interceptors and filters.
LEMMA Completed ==
  ASSUME AllOK, env' = env, app' = app, in' = in, cleaned' = cleaned, AllWhole', NEW r \in Requests,
         stage[r] \in {"pipe", "handling", "awaiting"}, NEW made, IsOutcome(made), Complete(r, made)
  PROVE  AllOK'
<1> DEFINE i == in[r]
           j == journal[r]
           e == ClientSaw(i, made)
           seen == Observed(e)
           w == ClientLog(i, made)
           l == Logged(e, i)
           f == Filtered(i, seen)
           s == Recorded(i, e)
<1>1. /\ env \in Deployments /\ Framed
      /\ RequestOK(stage[r], i, cleaned[r], outcome[r], answer[r], j, samples[r])
  BY DEF AllOK, Framed
<1>2. /\ i \in Inputs /\ Middleware(i) = NoOutcome /\ Admits(i) /\ Begun(i, j)
      /\ j \in Seq(LogEntries) /\ samples[r] = NoSamples
  BY <1>1 DEF RequestOK, Passing
<1>3. i.client \in BOOLEAN /\ i.void \in BOOLEAN /\ i.filtered \in BOOLEAN /\ env.metricsFound \in BOOLEAN
  BY <1>1, <1>2, InputIs, DeploymentIs
<1>4. IsOutcome(e) /\ IsOutcome(seen)
  BY <1>3, SeenIs
<1>5. /\ DOMAIN stage = Requests /\ DOMAIN outcome = Requests /\ DOMAIN answer = Requests
      /\ DOMAIN journal = Requests /\ DOMAIN samples = Requests
  BY <1>1 DEF Framed
<1>6. /\ outcome' = [outcome EXCEPT ![r] = made]
      /\ samples' = [samples EXCEPT ![r] =
           [http |-> IF env.metricsFound /\ env.metricsEnabled
                     THEN Append(samples[r].http, Sample(MetricsStatus(i, e))) ELSE samples[r].http,
            registry |-> IF i.instrumented
                         THEN Append(samples[r].registry, Sample(InstrumentationStatus(i, e)))
                         ELSE samples[r].registry]]
      /\ stage' = [stage EXCEPT ![r] = "answered"]
  BY DEF Complete, Fail
<1>7. samples'[r] = s
  <2>1. samples[r].http = <<>> /\ samples[r].registry = <<>>
    BY <1>2 DEF NoSamples
  <2>2. \A x : Append(<<>>, x) = <<x>>
    <3> TAKE x
    <3>1. x \in {x}
      OBVIOUS
    <3> QED
      BY <3>1, AppendOne
  <2> HIDE DEF e, i
  <2>3. samples'[r] =
           [http |-> IF env.metricsFound /\ env.metricsEnabled
                     THEN Append(samples[r].http, Sample(MetricsStatus(i, e))) ELSE samples[r].http,
            registry |-> IF i.instrumented
                         THEN Append(samples[r].registry, Sample(InstrumentationStatus(i, e)))
                         ELSE samples[r].registry]
    BY <1>5, <1>6
  <2> QED
    BY <2>1, <2>2, <2>3 DEF Recorded
<1>8. s \in [http : Seq(Samples), registry : Seq(Samples)]
  <2> HIDE DEF e, i
  <2> QED
    BY <1>2, <1>4, RecordedIs
<1>9. /\ i.filtered \in BOOLEAN /\ env' = env /\ in' = in /\ cleaned' = cleaned /\ app' = app
  BY <1>3
<1>10. SUFFICES ASSUME NEW a, NEW all, answer' = [answer EXCEPT ![r] = a],
                       journal' = [journal EXCEPT ![r] = all],
                       a.status \in 200 .. 599, a.context \in Graphs(LogNames),
                       all \in Seq(LogEntries), WellEnded(i, made, a, all, s)
                PROVE  AllOK'
  <2>1. CASE seen.class = "returned"
    <3> DEFINE a == Sent(i)
               all == Then(j, Then(w, l))
    <3>1. all \in Seq(LogEntries) /\ WellEnded(i, made, a, all, s)
      BY <1>1, <1>2, <2>1, SuccessEnds
    <3>2. answer' = [answer EXCEPT ![r] = a] /\ journal' = [journal EXCEPT ![r] = all]
      BY <2>1 DEF Complete, Sent, Then
    <3>3. a.status \in 200 .. 599 /\ a.context \in Graphs(LogNames)
      BY SentIs, NoGraphIs
    <3> HIDE DEF a, all, s, i
    <3> QED
      BY <1>10, <3>1, <3>2, <3>3
  <2>2. CASE seen.class # "returned"
    <3> DEFINE a == f.answer
               all == Then(Then(j, Then(w, l)), f.log)
    <3>1. Handled(i, seen, f)
      <4> HIDE DEF seen, i
      <4> QED
        BY <1>1, <1>3, <1>4, <2>2, FilteredIs
    <3>2. all \in Seq(LogEntries) /\ WellEnded(i, made, a, all, s)
      <4> HIDE DEF f
      <4> QED
        BY <1>1, <1>2, <2>2, <3>1, FailureEnds
    <3>3. answer' = [answer EXCEPT ![r] = a] /\ journal' = [journal EXCEPT ![r] = all]
      BY <2>2 DEF Complete, Fail, Then
    <3>4. a.status \in 200 .. 599 /\ a.context \in Graphs(LogNames)
      <4> HIDE DEF seen, i, f
      <4>1. a.status \in 400 .. 599 /\ a.context \in Graphs(LogNames)
        BY <3>1 DEF Handled
      <4> QED
        BY <4>1
    <3> HIDE DEF a, all, s, i
    <3> QED
      BY <1>10, <3>2, <3>3, <3>4
  <2> QED
    BY <2>1, <2>2
<1> HIDE DEF s, i
<1>11. RequestOK("answered", i, cleaned[r], made, a, all, s)
  <2>1. a.status \in {0} \cup 200 .. 599
    BY <1>10
  <2> QED
    BY <1>2, <1>8, <1>10, <2>1 DEF RequestOK, Passing
<1>12. /\ stage'[r] = "answered" /\ in'[r] = i /\ cleaned'[r] = cleaned[r] /\ outcome'[r] = made
       /\ answer'[r] = a /\ journal'[r] = all
  BY <1>5, <1>6, <1>9, <1>10 DEF i
<1>13. ASSUME NEW q \in Requests \ {r}
       PROVE  /\ stage'[q] = stage[q] /\ in'[q] = in[q] /\ cleaned'[q] = cleaned[q]
              /\ outcome'[q] = outcome[q] /\ answer'[q] = answer[q]
              /\ journal'[q] = journal[q] /\ samples'[q] = samples[q]
  BY <1>5, <1>6, <1>9, <1>10
<1>14. Framed'
  BY <1>1, <1>6, <1>9, <1>10 DEF Framed, Passing
<1> QED
  BY <1>7, <1>11, <1>12, <1>13, <1>14, RequestMoves

\* Nothing happens to any request.
LEMMA NoneMoves ==
  ASSUME AllOK, env' = env, app' \in {"starting", "running", "failed"}, AllWhole',
         UNCHANGED <<in, cleaned, stage, outcome, answer, journal, samples>>
  PROVE  AllOK'
<1>1. Framed'
  BY DEF AllOK, Framed
<1>2. ASSUME NEW q \in Requests
      PROVE  RequestOK(stage[q], in[q], cleaned[q], outcome[q], answer[q], journal[q], samples[q])'
  <2>1. RequestOK(stage'[q], in'[q], cleaned'[q], outcome'[q], answer'[q], journal'[q], samples'[q])
    BY DEF AllOK
  <2> QED
    BY <2>1, Moved
<1> QED
  BY <1>1, <1>2 DEF AllOK

\* The outgoing calls stay as they are.
LEMMA WholeStays ==
  ASSUME AllWhole, UNCHANGED http
  PROVE  AllWhole'
BY DEF AllWhole, HttpTypeOK, Whole, Unused, Reasons

\* Nothing, and then a sequence.
LEMMA ThenEmpty ==
  ASSUME NEW s \in Seq(LogEntries)
  PROVE  Then(<<>>, s) = s /\ Then(s, <<>>) = s
BY ConcatEmptySeq DEF Then

\* A request that a middleware or the guard refused; g was written by the guard.
LEMMA RefusedEnds ==
  ASSUME env \in Deployments, NEW i \in Inputs, NEW e, IsOutcome(e), e.class \in {"http", "error"},
         ~ Intercepts(i), NEW asked, NEW f, Handled(asked, e, f), NEW g, Only(g, GuardWhats)
  PROVE  /\ Then(g, f.log) \in Seq(LogEntries)
         /\ WellEnded(i, e, f.answer, Then(g, f.log), NoSamples)
<1> DEFINE a == f.answer
           lines == f.log
           all == Then(g, lines)
<1>1. /\ a.status \in 400 .. 599 /\ WroteFailure(e, lines)
      /\ env.production =>
           /\ ~ a.stack
           /\ a.message = "own" => e.class \in {"app", "http"}
           /\ a.context # NoGraph => e.class = "http"
  BY DEF Handled
<1>2. g \in Seq(LogEntries) /\ lines \in Seq(LogEntries)
  BY <1>1 DEF Only, WroteFailure
<1> HIDE DEF a, lines
<1>3. all \in Seq(LogEntries)
  BY <1>2, ThenIs
<1>4. KeptIn(i, e, a)
  BY <1>1 DEF KeptIn, Success
<1>5. MeasuredIn(i, e, a, NoSamples)
  <2>1. Len(NoSamples.http) = 0 /\ Len(NoSamples.registry) = 0
        /\ ToSet(NoSamples.http) = {} /\ ToSet(NoSamples.registry) = {}
    BY EmptySeq DEF NoSamples, ToSet
  <2> QED
    BY <2>1 DEF MeasuredIn
<1>6. DiscreetIn(e, a)
  BY <1>1 DEF DiscreetIn
<1>7. Only(g, GuardWhats \cup FilterWhats) /\ Only(lines, GuardWhats \cup FilterWhats)
  BY <1>1 DEF Only, WroteFailure, FilterWhats
<1>8. Only(all, GuardWhats \cup FilterWhats)
  BY <1>7, OnlyThen
<1>9. Places(all, {"incoming", "completed", "failed"}) = {}
  <2>1. (GuardWhats \cup FilterWhats) \cap {"incoming", "completed", "failed"} = {}
    BY DEF GuardWhats, FilterWhats
  <2> HIDE DEF all
  <2> QED
    BY <1>8, <2>1, OnlyPlaces
<1>10. ASSUME MinLevel <= 3 PROVE \E k \in DOMAIN all : all[k].level = "error"
  <2>1. PICK k \in DOMAIN lines : lines[k].level = "error"
    BY <1>1, <1>10 DEF WroteFailure
  <2>2. Len(g) + k \in DOMAIN all /\ all[Len(g) + k] = lines[k]
    BY <1>2, ThenIs
  <2> QED
    BY <2>1, <2>2
<1>11. ASSUME NEW k \in DOMAIN all, all[k].what \in Verdicts
       PROVE  /\ all[k].what = "transient exception" => Curable(e)
              /\ all[k].what = "permanent exception" => ~ Passes(e)
  <2>1. CASE k \in DOMAIN g
    <3>1. all[k].what \in GuardWhats
      BY <1>2, <2>1, ThenIs DEF Only
    <3> QED
      BY <1>11, <3>1 DEF GuardWhats, Verdicts
  <2>2. CASE k - Len(g) \in DOMAIN lines /\ k = Len(g) + (k - Len(g))
    <3>1. all[k] = lines[k - Len(g)]
      BY <1>2, <2>2, ThenIs
    <3>2. /\ all[k].what = "transient exception" => CategorizeError(e).retryable
          /\ all[k].what = "permanent exception" => ~ CategorizeError(e).retryable
      BY <1>1, <2>2, <3>1 DEF WroteFailure
    <3>3. CategorizeError(e).retryable => Curable(e)
      BY RetryableIsCurable
    <3>4. ~ CategorizeError(e).retryable => ~ Passes(e)
      BY PassesIsRetryable
    <3> QED
      BY <3>2, <3>3, <3>4
  <2>3. k \in DOMAIN g \/ (k - Len(g) \in DOMAIN lines /\ k = Len(g) + (k - Len(g)))
    BY <1>2, ThenIs
  <2> QED
    BY <2>1, <2>2, <2>3
<1> HIDE DEF all
<1>12. ToldIn(i, e, a, all)
  BY <1>9, <1>10, <1>11 DEF ToldIn, Verdicts
<1>13. WellEnded(i, e, a, all, NoSamples)
  BY <1>4, <1>5, <1>6, <1>12 DEF WellEnded
<1> QED
  BY <1>3, <1>13 DEF a, lines, all

\* What the guard and the interceptors write before the handler.
LEMMA BegunAfterGuards ==
  ASSUME NEW i
  PROVE  LET all == Then(Then(Then(<<>>, GuardLog(i)), LogFn(i, "incoming")), ClientRequestLog(i))
         IN all \in Seq(LogEntries) /\ Begun(i, all)
<1> DEFINE g == GuardLog(i)
           l == LogFn(i, "incoming")
           c == ClientRequestLog(i)
           before == Then(g, l)
           all == Then(before, c)
           some == GuardWhats \cup {"incoming", "request"}
<1>1. Only(g, GuardWhats)
  BY GuardLogWrites
<1>2. Line(l, "incoming") /\ (Visible(i) => Len(l) = 1)
  BY LogFnWrites, LevelsAndTexts
<1>3. Line(c, "request")
  BY ClientRequestLogWrites
<1> HIDE DEF g, l, c
<1>4. g \in Seq(LogEntries) /\ l \in Seq(LogEntries) /\ c \in Seq(LogEntries)
  BY <1>1, <1>2, <1>3 DEF Only, Line
<1>5. before \in Seq(LogEntries)
  BY <1>4, ThenIs
<1>6. all \in Seq(LogEntries)
  BY <1>4, <1>5, ThenIs
<1>7. Only(all, some)
  <2>1. Only(g, some)
    BY <1>1 DEF Only
  <2>2. Only(l, some) /\ Only(c, some)
    <3>1. "incoming" \in some /\ "request" \in some
      OBVIOUS
    <3> HIDE DEF some
    <3> QED
      BY <1>2, <1>3, <3>1, OnlyLine
  <2> HIDE DEF some
  <2> QED
    BY <2>1, <2>2, OnlyThen
<1>8. ASSUME Visible(i) PROVE \E k \in DOMAIN all : Places(all, {"incoming"}) = {k}
  <2> DEFINE whats == {"incoming"}
             p == Len(g) + 1
  <2>1. FoundNowhere(g, whats)
    <3>1. GuardWhats \cap whats = {}
      BY DEF GuardWhats
    <3> HIDE DEF whats
    <3> QED
      BY <1>1, <3>1, OnlyPlaces DEF FoundNowhere
  <2>2. FoundAt(l, whats, 1)
    <3>1. "incoming" \in whats
      OBVIOUS
    <3> HIDE DEF whats
    <3> QED
      BY <1>2, <1>8, <3>1, LinePlaces DEF FoundAt
  <2>3. FoundNowhere(c, whats)
    <3>1. "request" \notin whats
      OBVIOUS
    <3> HIDE DEF whats
    <3> QED
      BY <1>3, <3>1, LinePlaces DEF FoundNowhere
  <2>4. FoundAt(before, whats, p)
    <3> HIDE DEF whats
    <3> QED
      BY <1>4, <2>1, <2>2, FoundThen
  <2>5. FoundAt(all, whats, p)
    <3> HIDE DEF whats, before, p
    <3> QED
      BY <1>4, <1>5, <2>3, <2>4, FoundThen
  <2>6. p \in DOMAIN all
    <3> HIDE DEF all, p
    <3> QED
      BY <2>5 DEF FoundAt, Places
  <2> HIDE DEF all, p
  <2> QED
    BY <2>5, <2>6 DEF FoundAt
<1>9. \A k \in DOMAIN all :
        all[k].what \notin ({"completed", "failed", "response", "request failed"} \cup Verdicts)
  <2>1. some \cap ({"completed", "failed", "response", "request failed"} \cup Verdicts) = {}
    BY DEF GuardWhats, Verdicts
  <2> HIDE DEF some, all
  <2> QED
    BY <1>7, <2>1 DEF Only
<1>10. Begun(i, all)
  <2> HIDE DEF all
  <2> QED
    BY <1>8, <1>9 DEF Begun
<1>11. all = Then(Then(Then(<<>>, g), l), c)
  BY <1>4, ThenEmpty
<1> QED
  BY <1>6, <1>10, <1>11 DEF g, l, c

\* A handler that logs leaves what was written of the request.
LEMMA NotesKeepBegun ==
  ASSUME NEW i, NEW j \in Seq(LogEntries), Begun(i, j), NEW note \in Notes
  PROVE  Then(j, NoteEntry(note)) \in Seq(LogEntries) /\ Begun(i, Then(j, NoteEntry(note)))
<1> DEFINE n == NoteEntry(note)
           all == Then(j, n)
<1>1. Only(n, NoteWhats)
  BY NoteEntryWrites
<1> HIDE DEF n
<1>2. n \in Seq(LogEntries)
  BY <1>1 DEF Only
<1>3. all \in Seq(LogEntries)
  BY <1>2, ThenIs
<1>4. ASSUME NEW k \in DOMAIN all
      PROVE  all[k].what \notin ({"completed", "failed", "response", "request failed"} \cup Verdicts)
  <2>1. CASE k \in DOMAIN j
    <3>1. all[k] = j[k]
      BY <1>2, <2>1, ThenIs
    <3> HIDE DEF all
    <3> QED
      BY <2>1, <3>1 DEF Begun
  <2>2. CASE k - Len(j) \in DOMAIN n /\ k = Len(j) + (k - Len(j))
    <3>1. all[k] = n[k - Len(j)]
      BY <1>2, <2>2, ThenIs
    <3> QED
      BY <1>1, <2>2, <3>1 DEF Only, NoteWhats, Verdicts
  <2> QED
    BY <1>2, <2>1, <2>2, ThenIs
<1>5. ASSUME Visible(i) PROVE \E k \in DOMAIN all : Places(all, {"incoming"}) = {k}
  <2> DEFINE whats == {"incoming"}
  <2>1. PICK p \in DOMAIN j : FoundAt(j, whats, p)
    BY <1>5 DEF Begun, FoundAt
  <2>2. FoundNowhere(n, whats)
    <3>1. NoteWhats \cap whats = {}
      BY DEF NoteWhats
    <3> HIDE DEF whats
    <3> QED
      BY <1>1, <3>1, OnlyPlaces DEF FoundNowhere
  <2>3. FoundAt(all, whats, p) /\ p \in DOMAIN all
    <3> HIDE DEF whats
    <3> QED
      BY <1>2, <2>1, <2>2, FoundThen, ThenIs
  <2> HIDE DEF all
  <2> QED
    BY <2>3 DEF FoundAt
<1> HIDE DEF all
<1>6. Begun(i, all)
  BY <1>4, <1>5 DEF Begun
<1> QED
  BY <1>3, <1>6 DEF all, n

\* What the middleware, the guard, the pipe and an outgoing call make of a request.
LEMMA OutcomesAre ==
  /\ IsOutcome(NewError("http", 400, {})) /\ NewError("http", 400, {}).class = "http"
  /\ IsOutcome(NewError("http", 403, {})) /\ NewError("http", 403, {}).class = "http"
  /\ IsOutcome(NewError("error", 413, {})) /\ NewError("error", 413, {}).class = "error"
  /\ IsOutcome(Returned)
  /\ \A reason : IsOutcome(Rejection(reason))
<1>1. ASSUME NEW e, e.class \in {"returned", "http", "error"}, e.context = NoGraph, e.status \in {0, 400, 403, 413},
             e.class = "http" => e.status \in {400, 403}
      PROVE  IsOutcome(e)
  BY <1>1, NoGraphIs DEF IsOutcome
<1>2. IsOutcome(NewError("http", 400, {})) /\ NewError("http", 400, {}).class = "http"
  <2> DEFINE e == NewError("http", 400, {})
  <2>1. e.class = "http" /\ e.context = NoGraph /\ e.status = 400
    BY DEF NewError
  <2> HIDE DEF e
  <2>2. IsOutcome(e)
    BY <1>1, <2>1
  <2> QED
    BY <2>1, <2>2 DEF e
<1>3. IsOutcome(NewError("http", 403, {})) /\ NewError("http", 403, {}).class = "http"
  <2> DEFINE e == NewError("http", 403, {})
  <2>1. e.class = "http" /\ e.context = NoGraph /\ e.status = 403
    BY DEF NewError
  <2> HIDE DEF e
  <2>2. IsOutcome(e)
    BY <1>1, <2>1
  <2> QED
    BY <2>1, <2>2 DEF e
<1>4. IsOutcome(NewError("error", 413, {})) /\ NewError("error", 413, {}).class = "error"
  <2> DEFINE e == NewError("error", 413, {})
  <2>1. e.class = "error" /\ e.context = NoGraph /\ e.status = 413
    BY DEF NewError
  <2> HIDE DEF e
  <2>2. IsOutcome(e)
    BY <1>1, <2>1
  <2> QED
    BY <2>1, <2>2 DEF e
<1>5. IsOutcome(Returned)
  <2>1. Returned.class = "returned" /\ Returned.context = NoGraph /\ Returned.status = 0
    BY DEF NewError, Returned
  <2> QED
    BY <1>1, <2>1
<1>6. ASSUME NEW reason PROVE IsOutcome(Rejection(reason))
  <2> DEFINE e == Rejection(reason)
  <2>1. e.class = "error" /\ e.context = NoGraph /\ e.status = 0
    BY DEF NewError, Rejection
  <2> HIDE DEF e
  <2>2. IsOutcome(e)
    BY <1>1, <2>1
  <2> QED
    BY <2>2 DEF e
<1> QED
  BY <1>2, <1>3, <1>4, <1>5, <1>6

\* What a handler makes of it.
LEMMA FailuresAre ==
  ASSUME NEW e \in Failures \cup {Returned}
  PROVE  IsOutcome(e)
<1>1. CASE e \in Failures
  <2>1. /\ e.class \in {"app", "http", "error", "thrown"} /\ e.status \in Nat
        /\ e.class \in {"app", "http"} => e.status \in 400 .. 599
        /\ e.context \in Graphs(STRING)
    BY <1>1, PipelineAssumption DEF Exceptions
  <2>2. e.context \in Graphs(LogNames)
    BY <2>1, StringsAreNames
  <2> QED
    BY <2>1, <2>2 DEF IsOutcome
<1> QED
  BY <1>1, OutcomesAre

\* A request as it was when it is now at another stage that is before its answer.
LEMMA Waits ==
  ASSUME AllOK, env' = env, app' = app, in' = in, cleaned' = cleaned, outcome' = outcome,
         answer' = answer, samples' = samples, AllWhole', NEW r \in Requests,
         stage[r] \in Passing, NEW st \in Passing \ {"guards"}, stage' = [stage EXCEPT ![r] = st],
         Admits(in[r]), NEW j \in Seq(LogEntries), Begun(in[r], j),
         DOMAIN journal' = Requests, journal'[r] = j,
         \A q \in Requests \ {r} : journal'[q] = journal[q]
  PROVE  AllOK'
<1>1. Framed /\ RequestOK(stage[r], in[r], cleaned[r], outcome[r], answer[r], journal[r], samples[r])
  BY DEF AllOK
<1>2. stage \in [Requests -> {"idle", "answered"} \cup Passing] /\ DOMAIN journal = Requests
  BY <1>1 DEF Framed
<1>3. stage'[r] = st
  BY <1>2
<1>4. RequestOK(st, in[r], cleaned[r], outcome[r], answer[r], j, samples[r])
  BY <1>1 DEF RequestOK, Passing
<1>5. Framed'
  BY <1>1, <1>2 DEF Framed
<1>6. ASSUME NEW q \in Requests \ {r}
      PROVE  stage'[q] = stage[q]
  BY <1>2
<1> QED
  BY <1>3, <1>4, <1>5, <1>6, RequestMoves

\* What is known of a request that is at a stage after the guards.
LEMMA PassingIs ==
  ASSUME AllOK, NEW r \in Requests, stage[r] \in Passing
  PROVE  /\ in[r] \in Inputs /\ Middleware(in[r]) = NoOutcome /\ journal[r] \in Seq(LogEntries)
         /\ stage[r] # "guards" => Admits(in[r]) /\ Begun(in[r], journal[r])
         /\ stage[r] = "guards" => journal[r] = <<>>
         /\ samples[r] = NoSamples
<1>1. RequestOK(stage[r], in[r], cleaned[r], outcome[r], answer[r], journal[r], samples[r])
  BY DEF AllOK
<1> QED
  BY <1>1 DEF RequestOK, Passing

\* A middleware or the guard refuses r.
LEMMA Refused ==
  ASSUME AllOK, env' = env, app' = app, samples' = samples, AllWhole', NEW r \in Requests,
         samples[r] = NoSamples, NEW i \in Inputs, NEW e, IsOutcome(e), e.class \in {"http", "error"},
         ~ Intercepts(i), NEW asked, NEW f, Handled(asked, e, f),
         NEW c, in' \in [Requests -> Inputs \cup {NoInput}], in'[r] = i,
         DOMAIN cleaned' = Requests, cleaned'[r] = c,
         \A q \in Requests \ {r} : in'[q] = in[q] /\ cleaned'[q] = cleaned[q],
         outcome' = [outcome EXCEPT ![r] = e],
         NEW g, Only(g, GuardWhats), stage' = [stage EXCEPT ![r] = "answered"],
         answer' = [answer EXCEPT ![r] = f.answer],
         journal' = [journal EXCEPT ![r] = Then(g, f.log)]
  PROVE  AllOK'
<1> DEFINE a == f.answer
           all == Then(g, f.log)
<1>1. /\ env \in Deployments /\ Framed
      /\ RequestOK(stage[r], in[r], cleaned[r], outcome[r], answer[r], journal[r], samples[r])
  BY DEF AllOK, Framed
<1>3. all \in Seq(LogEntries) /\ WellEnded(i, e, a, all, NoSamples)
  BY <1>1, RefusedEnds
<1>4. a.status \in 400 .. 599 /\ a.context \in Graphs(LogNames)
  BY DEF Handled
<1>5. /\ in \in [Requests -> Inputs \cup {NoInput}] /\ stage \in [Requests -> {"idle", "answered"} \cup Passing]
      /\ DOMAIN cleaned = Requests /\ DOMAIN outcome = Requests /\ DOMAIN answer = Requests
      /\ DOMAIN journal = Requests /\ DOMAIN samples = Requests
  BY <1>1 DEF Framed
<1>6. answer' = [answer EXCEPT ![r] = a] /\ journal' = [journal EXCEPT ![r] = all]
  OBVIOUS
<1> HIDE DEF a, all
<1>7. RequestOK("answered", i, c, e, a, all, NoSamples)
  <2>1. a.status \in {0} \cup 200 .. 599
    BY <1>4
  <2>2. NoSamples \in [http : Seq(Samples), registry : Seq(Samples)]
    BY EmptySeq DEF NoSamples
  <2> QED
    BY <1>3, <1>4, <2>1, <2>2 DEF RequestOK, Passing
<1>8. /\ stage'[r] = "answered" /\ in'[r] = i /\ cleaned'[r] = c /\ outcome'[r] = e
      /\ answer'[r] = a /\ journal'[r] = all /\ samples'[r] = NoSamples
  BY <1>5, <1>6
<1>9. ASSUME NEW q \in Requests \ {r}
       PROVE  /\ stage'[q] = stage[q] /\ in'[q] = in[q] /\ cleaned'[q] = cleaned[q]
              /\ outcome'[q] = outcome[q] /\ answer'[q] = answer[q]
              /\ journal'[q] = journal[q] /\ samples'[q] = samples[q]
  BY <1>5, <1>6
<1>10. Framed'
  BY <1>1, <1>5, <1>6 DEF Framed, Passing
<1> QED
  BY <1>7, <1>8, <1>9, <1>10, RequestMoves

-----------------------------------------------------------------------------
(* Every step keeps the invariant                                          *)

\* A request comes in.
LEMMA ReceiveStep ==
  ASSUME AllOK, AllWhole', NEW r \in Requests, NEW i \in Inputs, Receive(r, i)
  PROVE  AllOK'
<1> DEFINE e == Middleware(i)
           c == IF env.mongo THEN SanitizeObject(i.payload) ELSE i.payload
           asked == [i EXCEPT !.filtered = FALSE]
<1>1. /\ Framed /\ stage[r] = "idle"
      /\ RequestOK(stage[r], in[r], cleaned[r], outcome[r], answer[r], journal[r], samples[r])
  BY DEF AllOK, Receive
<1>2. /\ journal[r] = <<>> /\ samples[r] = NoSamples
  BY <1>1 DEF RequestOK
<1>3. /\ in' = [in EXCEPT ![r] = i] /\ cleaned' = [cleaned EXCEPT ![r] = c]
      /\ env' = env /\ app' = app /\ samples' = samples
  BY DEF Receive
<1>4. /\ in \in [Requests -> Inputs \cup {NoInput}] /\ stage \in [Requests -> {"idle", "answered"} \cup Passing]
      /\ DOMAIN cleaned = Requests /\ DOMAIN outcome = Requests /\ DOMAIN answer = Requests
      /\ DOMAIN journal = Requests /\ DOMAIN samples = Requests
  BY <1>1 DEF Framed
<1>5. CASE e = NoOutcome
  <2>1. stage' = [stage EXCEPT ![r] = "guards"] /\ UNCHANGED <<outcome, answer, journal>>
    BY <1>5 DEF Receive
  <2> HIDE DEF e
  <2>2. RequestOK("guards", i, c, outcome[r], answer[r], journal[r], samples[r])
    BY <1>1, <1>2, <1>5 DEF RequestOK, Passing, e
  <2> HIDE DEF c
  <2>3. stage'[r] = "guards" /\ in'[r] = i /\ cleaned'[r] = c
    BY <1>3, <1>4, <2>1
  <2>4. ASSUME NEW q \in Requests \ {r}
        PROVE  stage'[q] = stage[q] /\ in'[q] = in[q] /\ cleaned'[q] = cleaned[q]
    BY <1>3, <1>4, <2>1
  <2>5. Framed'
    BY <1>1, <1>3, <1>4, <2>1 DEF Framed, Passing
  <2> QED
    BY <1>3, <2>1, <2>2, <2>3, <2>4, <2>5, RequestMoves
<1>6. CASE e # NoOutcome
  <2>1. IsOutcome(e) /\ e.class \in {"http", "error"}
    BY <1>6, OutcomesAre, NewErrorIs DEF Middleware
  <2>2. ~ Intercepts(i)
    BY <1>6 DEF Intercepts
  <2>3. asked.filtered \in BOOLEAN
    BY InputIs, PipelineAssumption DEF InputRecords
  <2> DEFINE f == Filtered(asked, e)
  <2>4. /\ outcome' = [outcome EXCEPT ![r] = e] /\ stage' = [stage EXCEPT ![r] = "answered"]
        /\ answer' = [answer EXCEPT ![r] = f.answer]
        /\ journal' = [journal EXCEPT ![r] = journal[r] \o <<>> \o f.log]
    BY <1>6 DEF Receive, Fail
  <2>5. journal[r] \o <<>> \o f.log = Then(<<>>, f.log)
    <3>1. <<>> \o <<>> = <<>>
      <4>1. <<>> \in Seq(LogEntries)
        BY EmptySeq
      <4> QED
        BY <4>1, ConcatEmptySeq
    <3> HIDE DEF f
    <3> QED
      BY <1>2, <3>1 DEF Then
  <2>6. Only(<<>>, GuardWhats)
    BY OnlyEmpty
  <2>9. /\ in' \in [Requests -> Inputs \cup {NoInput}] /\ in'[r] = i
        /\ DOMAIN cleaned' = Requests /\ cleaned'[r] = c
        /\ \A q \in Requests \ {r} : in'[q] = in[q] /\ cleaned'[q] = cleaned[q]
    <3> HIDE DEF c
    <3> QED
      BY <1>3, <1>4
  <2> HIDE DEF f, e, c, asked
  <2>7. journal' = [journal EXCEPT ![r] = Then(<<>>, f.log)]
    BY <2>4, <2>5
  <2>8. Handled(asked, e, f)
    BY <1>1, <2>1, <2>3, FilteredIs DEF f, Framed
  <2> QED
    BY <1>2, <1>3, <2>1, <2>2, <2>4, <2>6, <2>7, <2>8, <2>9, Refused
<1> QED
  BY <1>5, <1>6

\* The guard admits it or refuses it.
LEMMA GuardsStep ==
  ASSUME AllOK, AllWhole', NEW r \in Requests, Guards(r)
  PROVE  AllOK'
<1> DEFINE i == in[r]
           g == GuardLog(i)
           l == LogFn(i, "incoming")
           c == ClientRequestLog(i)
           e == NewError("http", 403, {})
           f == Filtered(i, e)
<1>1. /\ Framed /\ stage[r] = "guards" /\ stage[r] \in Passing
      /\ env' = env /\ app' = app /\ in' = in /\ cleaned' = cleaned /\ samples' = samples
  BY DEF AllOK, Guards, Passing
<1>2. /\ i \in Inputs /\ Middleware(i) = NoOutcome /\ journal[r] = <<>> /\ samples[r] = NoSamples
  BY <1>1, PassingIs
<1>3. CASE Admits(i)
  <2> DEFINE all == Then(Then(Then(<<>>, g), l), c)
  <2>1. all \in Seq(LogEntries) /\ Begun(i, all)
    BY BegunAfterGuards
  <2>2. /\ stage' = [stage EXCEPT ![r] = "pipe"] /\ outcome' = outcome /\ answer' = answer
        /\ journal' = [journal EXCEPT ![r] = journal[r] \o g \o l \o c]
    BY <1>3 DEF Guards
  <2>3. journal[r] \o g \o l \o c = all
    <3> HIDE DEF g, l, c
    <3> QED
      BY <1>2 DEF Then
  <2>4. "pipe" \in Passing \ {"guards"}
    BY DEF Passing
  <2> HIDE DEF all, g, l, c
  <2>5. journal' = [journal EXCEPT ![r] = all]
    BY <2>2, <2>3
  <2>6. DOMAIN journal' = Requests /\ journal'[r] = all /\ \A q \in Requests \ {r} : journal'[q] = journal[q]
    BY <1>1, <2>5 DEF Framed
  <2> QED
    BY <1>1, <1>3, <2>1, <2>2, <2>4, <2>6, Waits DEF i
<1>4. CASE ~ Admits(i)
  <2>1. IsOutcome(e) /\ e.class \in {"http", "error"}
    BY OutcomesAre
  <2>2. ~ Intercepts(i)
    BY <1>4 DEF Intercepts
  <2>3. i.filtered \in BOOLEAN
    BY <1>2, InputIs
  <2>4. /\ outcome' = [outcome EXCEPT ![r] = e] /\ stage' = [stage EXCEPT ![r] = "answered"]
        /\ answer' = [answer EXCEPT ![r] = f.answer]
        /\ journal' = [journal EXCEPT ![r] = journal[r] \o g \o f.log]
    BY <1>4 DEF Guards, Fail
  <2>5. journal[r] \o g \o f.log = Then(g, f.log)
    <3>1. <<>> \o g = g
      <4>1. g \in Seq(LogEntries)
        BY GuardLogWrites DEF Only
      <4> HIDE DEF g
      <4> QED
        BY <4>1, ConcatEmptySeq
    <3> HIDE DEF f, g
    <3> QED
      BY <1>2, <3>1 DEF Then
  <2>6. Only(g, GuardWhats)
    BY GuardLogWrites
  <2>7. in' \in [Requests -> Inputs \cup {NoInput}] /\ in'[r] = i
    BY <1>1 DEF Framed
  <2>8. /\ DOMAIN cleaned' = Requests
        /\ \A q \in Requests \ {r} : in'[q] = in[q] /\ cleaned'[q] = cleaned[q]
    BY <1>1 DEF Framed
  <2> HIDE DEF f, e, g, i
  <2>9. journal' = [journal EXCEPT ![r] = Then(g, f.log)]
    BY <2>4, <2>5
  <2>10. Handled(i, e, f)
    BY <1>1, <2>1, <2>3, FilteredIs DEF f, Framed
  <2> QED
    BY <1>1, <1>2, <2>1, <2>2, <2>4, <2>6, <2>7, <2>8, <2>9, <2>10, Refused
<1> QED
  BY <1>3, <1>4

\* The pipe takes its body or refuses it.
LEMMA PipeStep ==
  ASSUME AllOK, AllWhole', NEW r \in Requests, Pipe(r)
  PROVE  AllOK'
<1>1. /\ Framed /\ stage[r] = "pipe" /\ stage[r] \in Passing
      /\ env' = env /\ app' = app /\ in' = in /\ cleaned' = cleaned
  BY DEF AllOK, Pipe, Passing
<1>2. /\ Admits(in[r]) /\ Begun(in[r], journal[r]) /\ journal[r] \in Seq(LogEntries)
  BY <1>1, PassingIs
<1>3. CASE in[r].dto = "invalid"
  <2>1. Complete(r, NewError("http", 400, {}))
    BY <1>3 DEF Pipe
  <2> QED
    BY <1>1, <2>1, OutcomesAre, Completed
<1>4. CASE in[r].dto # "invalid"
  <2>1. stage' = [stage EXCEPT ![r] = "handling"] /\ UNCHANGED <<outcome, answer, journal, samples>>
    BY <1>4 DEF Pipe
  <2>2. "handling" \in Passing \ {"guards"}
    BY DEF Passing
  <2>3. DOMAIN journal' = Requests
    BY <1>1, <2>1 DEF Framed
  <2> QED
    BY <1>1, <1>2, <2>1, <2>2, <2>3, Waits
<1> QED
  BY <1>3, <1>4

\* The handler logs.
LEMMA NotesStep ==
  ASSUME AllOK, AllWhole', NEW r \in Requests, NEW note \in Notes, HandlerNotes(r, note)
  PROVE  AllOK'
<1> DEFINE all == Then(journal[r], NoteEntry(note))
<1>1. /\ Framed /\ stage[r] = "handling" /\ stage[r] \in Passing
      /\ UNCHANGED <<env, app, in, cleaned, stage, outcome, answer, samples>>
      /\ journal' = [journal EXCEPT ![r] = all]
  BY DEF AllOK, HandlerNotes, Passing, Then
<1>2. /\ Admits(in[r]) /\ Begun(in[r], journal[r]) /\ journal[r] \in Seq(LogEntries)
  BY <1>1, PassingIs
<1>3. all \in Seq(LogEntries) /\ Begun(in[r], all)
  BY <1>2, NotesKeepBegun
<1> HIDE DEF all
<1>4. stage' = [stage EXCEPT ![r] = "handling"]
  BY <1>1 DEF Framed
<1>5. DOMAIN journal' = Requests /\ journal'[r] = all /\ \A q \in Requests \ {r} : journal'[q] = journal[q]
  BY <1>1 DEF Framed
<1>6. "handling" \in Passing \ {"guards"}
  BY DEF Passing
<1> QED
  BY <1>1, <1>2, <1>3, <1>4, <1>5, <1>6, Waits

\* The handler calls a peer.
LEMMA CallsStep ==
  ASSUME AllOK, AllWhole', NEW r \in Requests, NEW input, HandlerCalls(r, input)
  PROVE  AllOK'
<1>1. /\ Framed /\ stage[r] = "handling" /\ stage[r] \in Passing
      /\ UNCHANGED <<env, app, in, cleaned, outcome, answer, journal, samples>>
      /\ stage' = [stage EXCEPT ![r] = "awaiting"]
  BY DEF AllOK, HandlerCalls, Passing
<1>2. /\ Admits(in[r]) /\ Begun(in[r], journal[r]) /\ journal[r] \in Seq(LogEntries)
  BY <1>1, PassingIs
<1>3. "awaiting" \in Passing \ {"guards"}
  BY DEF Passing
<1>4. DOMAIN journal' = Requests
  BY <1>1 DEF Framed
<1> QED
  BY <1>1, <1>2, <1>3, <1>4, Waits

\* What happens to the outgoing calls is what HttpClient allows.
LEMMA WholeStep ==
  ASSUME AllWhole, PipelineNext
  PROVE  AllWhole'
<1>1. ASSUME NEW r \in Requests, NEW input \in {"good", "badUrl", "circular"}, Request(r, input)
      PROVE  AllWhole'
  <2>1. r \in Calls
    BY PipelineAssumption
  <2>2. HttpClientNext
    BY <1>1, <2>1 DEF HttpClientNext
  <2> QED
    BY <2>2, HttpClientSteps
<1>2. ASSUME NEW r \in Requests, SocketEvent(r) PROVE AllWhole'
  <2>1. r \in Calls
    BY PipelineAssumption
  <2>2. HttpClientNext
    BY <1>2, <2>1 DEF HttpClientNext
  <2> QED
    BY <2>2, HttpClientSteps
<1>3. CASE UNCHANGED http
  BY <1>3, WholeStays
<1>4. \/ UNCHANGED http
      \/ \E r \in Requests : \/ \E input \in {"good", "badUrl", "circular"} : Request(r, input)
                             \/ SocketEvent(r)
  BY DEF PipelineNext, ModuleInit, Receive, Guards, Pipe, HandlerNotes, HandlerEnds, HandlerCalls,
         HandlerResumes, ClientStep
<1> QED
  BY <1>1, <1>2, <1>3, <1>4

\* The invariant is kept by every step of the application.
LEMMA PipelineSteps ==
  ASSUME AllOK, [PipelineNext]_pipelineVars
  PROVE  AllOK'
<1>1. AllWhole'
  BY WholeStep, WholeStays DEF AllOK, pipelineVars
<1>2. CASE UNCHANGED pipelineVars
  <2>1. app \in {"starting", "running", "failed"}
    BY DEF AllOK, Framed
  <2> QED
    BY <1>1, <1>2, <2>1, NoneMoves DEF pipelineVars
<1>3. CASE ModuleInit
  <2>1. app' \in {"starting", "running", "failed"}
    BY <1>3 DEF ModuleInit
  <2> QED
    BY <1>1, <1>3, <2>1, NoneMoves DEF ModuleInit
<1>4. ASSUME NEW r \in Requests, NEW i \in Inputs, Receive(r, i) PROVE AllOK'
  BY <1>1, <1>4, ReceiveStep
<1>5. ASSUME NEW r \in Requests, Guards(r) PROVE AllOK'
  BY <1>1, <1>5, GuardsStep
<1>6. ASSUME NEW r \in Requests, Pipe(r) PROVE AllOK'
  BY <1>1, <1>6, PipeStep
<1>7. ASSUME NEW r \in Requests, NEW note \in Notes, HandlerNotes(r, note) PROVE AllOK'
  BY <1>1, <1>7, NotesStep
<1>8. ASSUME NEW r \in Requests, NEW e \in Failures \cup {Returned}, HandlerEnds(r, e) PROVE AllOK'
  <2>1. IsOutcome(e)
    BY FailuresAre
  <2>2. stage[r] \in {"pipe", "handling", "awaiting"}
    BY <1>8 DEF HandlerEnds
  <2> QED
    BY <1>1, <1>8, <2>1, <2>2, Completed DEF HandlerEnds
<1>9. ASSUME NEW r \in Requests, NEW input, HandlerCalls(r, input) PROVE AllOK'
  BY <1>1, <1>9, CallsStep
<1>10. ASSUME NEW r \in Requests, HandlerResumes(r) PROVE AllOK'
  <2> DEFINE e == IF http[r].promise = "resolved" THEN Returned ELSE Rejection(http[r].promise)
  <2>1. IsOutcome(e)
    <3>1. IsOutcome(Rejection(http[r].promise)) /\ IsOutcome(Returned)
      BY OutcomesAre
    <3> QED
      BY <3>1
  <2>2. /\ stage[r] \in {"pipe", "handling", "awaiting"} /\ Complete(r, e)
        /\ UNCHANGED <<env, app, in, cleaned>>
    BY <1>10 DEF HandlerResumes
  <2> HIDE DEF e
  <2> QED
    BY <1>1, <2>1, <2>2, Completed
<1>11. ASSUME NEW r \in Requests, ClientStep(r) PROVE AllOK'
  <2>1. app \in {"starting", "running", "failed"}
    BY DEF AllOK, Framed
  <2> QED
    BY <1>1, <1>11, <2>1, NoneMoves DEF ClientStep
<1> QED
  BY <1>2, <1>3, <1>4, <1>5, <1>6, <1>7, <1>8, <1>9, <1>10, <1>11 DEF PipelineNext

\* It holds at the start.
LEMMA PipelineStarts == ASSUME PipelineInit PROVE AllOK
<1>1. AllWhole
  BY SizesAssumption DEF PipelineInit, HttpInit, AllWhole, HttpTypeOK, Whole, Unused
<1>2. Framed
  BY DEF PipelineInit, Framed
<1>3. <<>> \in Seq(LogEntries) /\ <<>> \in Seq(Samples)
  BY EmptySeq
<1>4. NoSamples \in [http : Seq(Samples), registry : Seq(Samples)]
  BY <1>3 DEF NoSamples
<1>5. NoAnswer.status = 0 /\ NoAnswer.context \in Graphs(LogNames)
  BY NoGraphIs DEF NoAnswer
<1>6. ASSUME NEW r \in Requests
      PROVE  RequestOK(stage[r], in[r], cleaned[r], outcome[r], answer[r], journal[r], samples[r])
  <2>1. /\ stage[r] = "idle" /\ answer[r] = NoAnswer /\ journal[r] = <<>> /\ samples[r] = NoSamples
    BY DEF PipelineInit, NoSamples
  <2> QED
    BY <1>3, <1>4, <1>5, <2>1 DEF RequestOK, Passing
<1> QED
  BY <1>1, <1>2, <1>6 DEF AllOK

\* Of every request, at every stage and whatever comes in between: what is known of it (see
\* RequestOK) always holds.
THEOREM PipelineInvariant == PipelineSpec => []AllOK
<1>1. PipelineInit => AllOK
  BY PipelineStarts
<1>2. AllOK /\ [PipelineNext]_pipelineVars => AllOK'
  BY PipelineSteps
<1> QED
  BY <1>1, <1>2, PTL DEF PipelineSpec

-----------------------------------------------------------------------------
(* The properties of the pipeline                                          *)

\* What the invariant says of a request that was answered, in the words of the properties.
LEMMA AnsweredIs ==
  ASSUME AllOK, NEW r \in Requests, Answered(r)
  PROVE  /\ WellEnded(in[r], outcome[r], answer[r], journal[r], samples[r])
         /\ Intercepted(r) <=> Intercepts(in[r])
         /\ Succeeds(r) <=> Success(in[r], outcome[r])
<1>1. RequestOK(stage[r], in[r], cleaned[r], outcome[r], answer[r], journal[r], samples[r])
  BY DEF AllOK
<1>2. stage[r] = "answered"
  BY DEF Answered
<1>3. WellEnded(in[r], outcome[r], answer[r], journal[r], samples[r])
  BY <1>1, <1>2 DEF RequestOK
<1> QED
  BY <1>2, <1>3 DEF Intercepted, Intercepts, Succeeds, Success, Answered

\* The invariant gives the types.
LEMMA TypesHold == ASSUME AllOK PROVE PipelineTypeOK
<1>1. HttpTypeOK
  BY DEF AllOK, AllWhole
<1>2. /\ env \in Deployments /\ app \in {"starting", "running", "failed"}
      /\ in \in [Requests -> Inputs \cup {NoInput}]
      /\ stage \in [Requests -> {"idle", "guards", "pipe", "handling", "awaiting", "answered"}]
  <2>1. {"idle", "answered"} \cup Passing = {"idle", "guards", "pipe", "handling", "awaiting", "answered"}
    BY DEF Passing
  <2> QED
    BY <2>1 DEF AllOK, Framed
<1>3. ASSUME NEW r \in Requests
      PROVE  /\ answer[r].status \in {0} \cup 200 .. 599
             /\ \A s \in ToSet(samples[r].http) \cup ToSet(samples[r].registry) :
                  s.status \in 200 .. 599 /\ s.class \in {"2xx", "4xx", "5xx"}
  <2>1. /\ answer[r].status \in {0} \cup 200 .. 599
        /\ samples[r] \in [http : Seq(Samples), registry : Seq(Samples)]
    BY DEF AllOK, RequestOK
  <2>2. samples[r].http \in Seq(Samples) /\ samples[r].registry \in Seq(Samples)
    BY <2>1
  <2>3. ASSUME NEW q \in Seq(Samples) PROVE \A s \in ToSet(q) : s \in Samples
    BY DEF ToSet
  <2>4. \A s \in ToSet(samples[r].http) \cup ToSet(samples[r].registry) : s \in Samples
    BY <2>2, <2>3
  <2> QED
    BY <2>1, <2>4 DEF Samples
<1> QED
  BY <1>1, <1>2, <1>3 DEF PipelineTypeOK

\* What a caller is told of a request, and what is measured of it, is what the handler did,
\* whatever fails in interceptors and filters.
THEOREM AnsweredCorrect == PipelineSpec => []AnsweredAsDone
<1>1. ASSUME AllOK PROVE AnsweredAsDone
  <2>1. PipelineTypeOK
    BY <1>1, TypesHold
  <2>2. OutcomeKept
    <3> SUFFICES ASSUME NEW r \in Requests, Answered(r)
                 PROVE  /\ Succeeds(r) => answer[r].status = ResponseStatus(in[r])
                        /\ outcome[r].class # "returned" => answer[r].status \in 400 .. 599
                        /\ outcome[r].class = "app" /\ env.metricsFound => answer[r].status = outcome[r].status
      BY DEF OutcomeKept
    <3>1. KeptIn(in[r], outcome[r], answer[r]) /\ (Succeeds(r) <=> Success(in[r], outcome[r]))
      BY <1>1, AnsweredIs DEF WellEnded
    <3> QED
      BY <3>1 DEF KeptIn
  <2>3. MeasuredAsAnswered
    <3> SUFFICES ASSUME NEW r \in Requests, Answered(r)
                 PROVE  LET both == <<samples[r].http, samples[r].registry>>
                            told == \/ Succeeds(r)
                                    \/ outcome[r].class = "http" /\ (in[r].filtered \/ env.order[1] = "http")
                                       /\ env.metricsFound
                        IN /\ Len(both[1]) = IF Intercepted(r) /\ env.metricsFound /\ env.metricsEnabled THEN 1 ELSE 0
                           /\ Len(both[2]) = IF Intercepted(r) /\ in[r].instrumented THEN 1 ELSE 0
                           /\ told => \A k \in 1 .. 2 : \A s \in ToSet(both[k]) : s.status = answer[r].status
      BY DEF MeasuredAsAnswered
    <3>1. /\ MeasuredIn(in[r], outcome[r], answer[r], samples[r])
          /\ Succeeds(r) <=> Success(in[r], outcome[r])
          /\ Intercepted(r) <=> Intercepts(in[r])
      BY <1>1, AnsweredIs DEF WellEnded
    <3>2. /\ Len(samples[r].http) = IF Intercepted(r) /\ env.metricsFound /\ env.metricsEnabled THEN 1 ELSE 0
          /\ Len(samples[r].registry) = IF Intercepted(r) /\ in[r].instrumented THEN 1 ELSE 0
      BY <3>1 DEF MeasuredIn
    <3>3. ASSUME \/ Succeeds(r)
                 \/ outcome[r].class = "http" /\ (in[r].filtered \/ env.order[1] = "http")
                    /\ env.metricsFound
          PROVE  /\ \A s \in ToSet(samples[r].http) : s.status = answer[r].status
                 /\ \A s \in ToSet(samples[r].registry) : s.status = answer[r].status
      BY <3>1, <3>3 DEF MeasuredIn
    <3>4. \A k \in 1 .. 2 : k = 1 \/ k = 2
      OBVIOUS
    <3> QED
      BY <3>2, <3>3, <3>4
  <2> QED
    BY <2>1, <2>2, <2>3 DEF AnsweredAsDone
<1> QED
  BY <1>1, PipelineInvariant, PTL

\* The log tells of each request that it came in and how it went, in agreement with the
\* answer, and an answer of 500 is among its errors.
THEOREM LogCorrect == PipelineSpec => []LogTellsOutcome
<1>1. ASSUME AllOK, NEW r \in Requests, Answered(r)
      PROVE  LET how == IF answer[r].status < 400 THEN "completed" ELSE "failed"
                 visible == MinLevel = 0 \/ (MinLevel = 1 /\ in[r].path = "/items")
             IN /\ Intercepted(r) /\ visible => Tells(journal[r], "incoming", how, {"completed", "failed"})
                /\ Intercepted(r) /\ in[r].client /\ visible /\ env.metricsFound
                     => Tells(journal[r], IF how = "completed" THEN "response" ELSE "request failed", how,
                              {"response", "request failed"})
                /\ ~ Intercepted(r) => Places(journal[r], {"incoming", "completed", "failed"}) = {}
                /\ answer[r].status >= 500 /\ MinLevel <= 3 => \E e \in ToSet(journal[r]) : e.level = "error"
  <2> DEFINE how == IF answer[r].status < 400 THEN "completed" ELSE "failed"
             client == IF how = "completed" THEN "response" ELSE "request failed"
  <2>1. /\ ToldIn(in[r], outcome[r], answer[r], journal[r])
        /\ Intercepted(r) <=> Intercepts(in[r])
        /\ answer[r].status \in 200 .. 599
    BY <1>1, AnsweredIs DEF WellEnded, KeptIn
  <2>2. ~ Intercepted(r) => Places(journal[r], {"incoming", "completed", "failed"}) = {}
    BY <2>1 DEF ToldIn
  <2>3. answer[r].status >= 500 /\ MinLevel <= 3 => \E e \in ToSet(journal[r]) : e.level = "error"
    BY <2>1 DEF ToldIn, ToSet
  <2>4. /\ answer[r].status < 400 => how = "completed" /\ client = "response"
        /\ ~ (answer[r].status < 400) => how = "failed" /\ client = "request failed"
    OBVIOUS
  <2>5. ASSUME Intercepted(r) PROVE StoryIn(in[r], journal[r], client, how)
    <3> HIDE DEF how, client
    <3>1. CASE answer[r].status < 400
      BY <2>1, <2>4, <2>5, <3>1 DEF ToldIn
    <3>2. CASE answer[r].status >= 400
      <4>1. ~ (answer[r].status < 400)
        BY <2>1, <3>2
      <4> QED
        BY <2>1, <2>4, <2>5, <3>2, <4>1 DEF ToldIn
    <3> QED
      BY <2>1, <3>1, <3>2
  <2>6. /\ Intercepted(r) /\ Visible(in[r]) => Tells(journal[r], "incoming", how, {"completed", "failed"})
        /\ Intercepted(r) /\ in[r].client /\ Visible(in[r]) /\ env.metricsFound
             => Tells(journal[r], client, how, {"response", "request failed"})
    <3> HIDE DEF how, client
    <3> QED
      BY <2>5 DEF StoryIn
  <2> QED
    BY <2>2, <2>3, <2>6, Zenon DEF Visible
<1>2. AllOK => LogTellsOutcome
  BY <1>1, Zenon DEF LogTellsOutcome
<1> QED
  BY <1>2, PipelineInvariant, PTL

\* A failure for which the caller is at fault is logged as transient only where its code or
\* message blames the way to a server; one that passes is not logged as permanent.
THEOREM RetriesCorrect == PipelineSpec => []RetriesAreJustified
<1>1. ASSUME AllOK PROVE RetriesAreJustified
  <2> DEFINE logged(r) == {x.what : x \in ToSet(journal[r])}
  <2>1. ASSUME NEW r \in Requests, Answered(r)
        PROVE  /\ CallerAtFault(outcome[r]) /\ ~ WayBlamed(outcome[r]) => "transient exception" \notin logged(r)
               /\ Passes(outcome[r]) /\ env.metricsFound => "permanent exception" \notin logged(r)
    <3>1. ToldIn(in[r], outcome[r], answer[r], journal[r])
      BY <1>1, <2>1, AnsweredIs DEF WellEnded
    <3>2. \A what : what \in logged(r) => \E k \in DOMAIN journal[r] : journal[r][k].what = what
      BY DEF ToSet
    <3>3. CallerAtFault(outcome[r]) => outcome[r].status \notin {429, 502, 503, 504}
      BY DEF CallerAtFault
    <3> HIDE DEF logged
    <3>4. "transient exception" \in logged(r) => Curable(outcome[r])
      BY <3>1, <3>2 DEF ToldIn
    <3>5. "permanent exception" \in logged(r) /\ env.metricsFound => ~ Passes(outcome[r])
      BY <3>1, <3>2 DEF ToldIn
    <3> QED
      BY <3>3, <3>4, <3>5 DEF Curable
  <2> QED
    BY <2>1 DEF RetriesAreJustified
<1> QED
  BY <1>1, PipelineInvariant, PTL

-----------------------------------------------------------------------------
(* What crosses the borders of the application                             *)

\* Of a context, the caller is shown nothing under a secret key, and of one that fits
\* the depth all the rest.
LEMMA ContextShown ==
  ASSUME NEW g \in Graphs(LogNames)
  PROVE  /\ SanitizeContext(g) \subseteq Public(g, ResponseSecrets)
         /\ Len(g) <= MaxContextDepth => Public(g, ResponseSecrets) \subseteq SanitizeContext(g)
<1> DEFINE p == [secret |-> ResponseSecrets, max |-> MaxContextDepth,
                 leafMax |-> MaxContextDepth + 1, copied |-> FALSE]
           D == DOMAIN g
<1>1. /\ p.max \in Nat /\ p.leafMax \in Nat /\ p.secret = ResponseSecrets /\ ~ p.copied
      /\ p.max = MaxContextDepth /\ p.leafMax = MaxContextDepth + 1
  BY DepthsAssumption
<1>2. SanitizeContext(g) = Shown(g, p)
  BY DEF SanitizeContext
<1> HIDE DEF p
<1>3. Shown(g, p) \subseteq Public(g, p.secret)
  BY <1>1, ShownIsPublic
<1>4. Len(g) \in Nat /\ DOMAIN g = 1 .. Len(g)
  BY GraphIs
<1>5. ASSUME Len(g) <= MaxContextDepth, g # <<>> PROVE Public(g, p.secret) \subseteq Shown(g, p)
  <2>1. Len(g) # 0
    <3>1. g \in Seq(Seq([key : LogNames, val : Nat]))
      BY DEF Graphs
    <3> QED
      BY <1>5, <3>1, EmptySeq
  <2>2. Cardinality(D) = Len(g)
    <3>1. Cardinality(1 .. Len(g)) = Len(g)
      BY <1>4, <2>1, FS_Interval
    <3> QED
      BY <1>4, <3>1
  <2>3. \A e \in Entries(g) : ValAt(g, e) # 0 => ValAt(g, e) \in D
    <3> TAKE e \in Entries(g)
    <3>1. e[1] \in DOMAIN g /\ e[2] \in DOMAIN g[e[1]]
      BY EntriesAre
    <3>2. g[e[1]][e[2]].val \in 0 .. Len(g)
      BY <3>1, GraphIs
    <3> QED
      BY <1>4, <3>2 DEF ValAt
  <2>4. 1 \in D /\ D \subseteq DOMAIN g
    BY <1>4, <2>1
  <2>5. p.max # 0 /\ Cardinality(D) + 0 <= p.max /\ Cardinality(D) + 0 < p.leafMax
    BY <1>1, <1>4, <1>5, <2>1, <2>2, DepthsAssumption
  <2> HIDE DEF D
  <2> QED
    BY <1>1, <2>3, <2>4, <2>5, PublicIsShown
<1>6. ASSUME g = <<>> PROVE Public(g, p.secret) = {}
  <2>1. Entries(g) = {}
    BY <1>6 DEF Entries
  <2> QED
    BY <2>1 DEF Public
<1> QED
  BY <1>1, <1>2, <1>3, <1>5, <1>6

\* The same of metadata.  The walk starts from a copy of the root, which is one object more
\* when the root is referred to.
LEMMA MetadataShown ==
  ASSUME NEW g \in Graphs(LogNames)
  PROVE  /\ SanitizeMetadata(g) \subseteq Public(g, LogSecrets)
         /\ Rooms(g) < MaxSanitizeDepth => Public(g, LogSecrets) \subseteq SanitizeMetadata(g)
<1> DEFINE p == [secret |-> LogSecrets, max |-> MaxSanitizeDepth,
                 leafMax |-> MaxSanitizeDepth, copied |-> TRUE]
           back == \E e \in Entries(g) : ValAt(g, e) = 1
           D == IF back THEN 1 .. Len(g) ELSE 2 .. Len(g)
<1>1. /\ p.max \in Nat /\ p.leafMax \in Nat /\ p.secret = LogSecrets /\ p.copied
      /\ p.max = MaxSanitizeDepth /\ p.leafMax = MaxSanitizeDepth
  BY DepthsAssumption
<1>2. SanitizeMetadata(g) = Shown(g, p)
  BY DEF SanitizeMetadata
<1> HIDE DEF p
<1>3. Shown(g, p) \subseteq Public(g, p.secret)
  BY <1>1, ShownIsPublic
<1>4. Len(g) \in Nat /\ DOMAIN g = 1 .. Len(g)
  BY GraphIs
<1>5. ASSUME Rooms(g) < MaxSanitizeDepth, g # <<>> PROVE Public(g, p.secret) \subseteq Shown(g, p)
  <2>1. Len(g) # 0
    <3>1. g \in Seq(Seq([key : LogNames, val : Nat]))
      BY DEF Graphs
    <3> QED
      BY <1>5, <3>1, EmptySeq
  <2>2. Rooms(g) = IF back THEN Len(g) + 1 ELSE Len(g)
    BY <1>4 DEF Rooms
  <2>3. Cardinality(D) = IF back THEN Len(g) ELSE Len(g) - 1
    <3>0. \A n \in Nat \ {0} : Cardinality(1 .. n) = n /\ Cardinality(2 .. n) = n - 1
      <4> TAKE n \in Nat \ {0}
      <4>1. Cardinality(1 .. n) = IF 1 > n THEN 0 ELSE n - 1 + 1
        BY FS_Interval
      <4>2. Cardinality(2 .. n) = IF 2 > n THEN 0 ELSE n - 2 + 1
        BY FS_Interval
      <4> QED
        BY <4>1, <4>2
    <3>1. Cardinality(1 .. Len(g)) = Len(g) /\ Cardinality(2 .. Len(g)) = Len(g) - 1
      BY <1>4, <2>1, <3>0
    <3> HIDE DEF back
    <3> QED
      BY <3>1
  <2>4. \A e \in Entries(g) : ValAt(g, e) # 0 => ValAt(g, e) \in D
    <3> TAKE e \in Entries(g)
    <3>1. e[1] \in DOMAIN g /\ e[2] \in DOMAIN g[e[1]]
      BY EntriesAre
    <3>2. ValAt(g, e) \in 0 .. Len(g)
      BY <3>1, GraphIs DEF ValAt
    <3>3. ValAt(g, e) = 1 => back
      OBVIOUS
    <3> HIDE DEF back
    <3> QED
      BY <1>4, <3>2, <3>3
  <2>5. D \subseteq DOMAIN g
    <3> HIDE DEF back
    <3> QED
      BY <1>4
  <2> HIDE DEF D, back
  <2>6. p.max # 0 /\ Cardinality(D) + 1 <= p.max /\ Cardinality(D) + 1 < p.leafMax
    BY <1>1, <1>4, <1>5, <2>1, <2>2, <2>3, DepthsAssumption
  <2> QED
    BY <1>1, <2>4, <2>5, <2>6, PublicIsShown
<1>6. ASSUME g = <<>> PROVE Public(g, p.secret) = {}
  <2>1. Entries(g) = {}
    BY <1>6 DEF Entries
  <2> QED
    BY <2>1 DEF Public
<1> QED
  BY <1>1, <1>2, <1>3, <1>5, <1>6

\* And what is shown of contexts and metadata.
LEMMA RedactionHolds == ASSUME AllOK PROVE RedactionIsExact
<1> SUFFICES ASSUME NEW r \in Requests
             PROVE  /\ SanitizeContext(answer[r].context) \subseteq Public(answer[r].context, ResponseSecrets)
                    /\ Len(answer[r].context) <= MaxContextDepth
                         => Public(answer[r].context, ResponseSecrets) \subseteq SanitizeContext(answer[r].context)
                    /\ \A e \in ToSet(journal[r]) :
                         /\ SanitizeMetadata(e.graph) \subseteq Public(e.graph, LogSecrets)
                         /\ Rooms(e.graph) < MaxSanitizeDepth
                              => Public(e.graph, LogSecrets) \subseteq SanitizeMetadata(e.graph)
  BY Zenon DEF RedactionIsExact
<1>1. answer[r].context \in Graphs(LogNames) /\ journal[r] \in Seq(LogEntries)
  BY DEF AllOK, RequestOK
<1>2. \A e \in ToSet(journal[r]) : e.graph \in Graphs(LogNames)
  <2>1. \A e \in ToSet(journal[r]) : e \in LogEntries
    BY <1>1 DEF ToSet
  <2> QED
    BY <2>1 DEF LogEntries
<1> QED
  BY <1>1, <1>2, ContextShown, MetadataShown

\* And what is not sent in production.
LEMMA NothingInternal == ASSUME AllOK PROVE NothingInternalSent
<1> SUFFICES ASSUME env.production, NEW r \in Requests, Answered(r)
             PROVE  /\ ~ answer[r].stack
                    /\ answer[r].message = "own" => outcome[r].class \in {"returned", "app", "http"}
                    /\ answer[r].context # NoGraph => outcome[r].class = "http"
  BY DEF NothingInternalSent
<1>1. DiscreetIn(outcome[r], answer[r])
  BY AnsweredIs DEF WellEnded
<1> QED
  BY <1>1 DEF DiscreetIn

\* The value of the last entry of object n that has this key after renaming.
Latest(g, n, key) == g[n][Max({j \in DOMAIN g[n] : SanitizedKey(g[n][j].key) = key})].val

\* Every key is renamed, at its place.
LEMMA SanitizedIs ==
  ASSUME NEW g
  PROVE  /\ Entries(SanitizeObject(g)) = Entries(g)
         /\ \A e \in Entries(g) :
              /\ KeyAt(SanitizeObject(g), e) = SanitizedKey(KeyAt(g, e))
              /\ ValAt(SanitizeObject(g), e) = Latest(g, e[1], SanitizedKey(KeyAt(g, e)))
<1> DEFINE c == SanitizeObject(g)
<1>1. c = [n \in DOMAIN g |-> [i \in DOMAIN g[n] |->
             [key |-> SanitizedKey(g[n][i].key), val |-> Latest(g, n, SanitizedKey(g[n][i].key))]]]
  BY Zenon DEF SanitizeObject, Latest
<1> HIDE DEF c
<1>2. DOMAIN c = DOMAIN g /\ \A n \in DOMAIN g : DOMAIN c[n] = DOMAIN g[n]
  BY <1>1
<1>3. Entries(c) = Entries(g)
  BY <1>2 DEF Entries
<1>4. ASSUME NEW e \in Entries(g) PROVE e[1] \in DOMAIN g /\ e[2] \in DOMAIN g[e[1]]
  BY DEF Entries
<1>5. ASSUME NEW e \in Entries(g)
      PROVE  KeyAt(c, e) = SanitizedKey(KeyAt(g, e)) /\ ValAt(c, e) = Latest(g, e[1], SanitizedKey(KeyAt(g, e)))
  BY <1>1, <1>4 DEF KeyAt, ValAt
<1> QED
  BY <1>3, <1>5 DEF c

\* And what a handler is given.
LEMMA ReceivedHolds == ASSUME AllOK PROVE ReceivedIsClean
<1> SUFFICES ASSUME NEW r \in Requests, stage[r] \in {"handling", "awaiting"}, env.mongo
             PROVE  /\ Keys(cleaned[r]) \cap Harmful = {}
                    /\ Keys(cleaned[r]) = {SanitizedKey(k) : k \in Keys(in[r].payload)}
                    /\ \A e, f \in Entries(cleaned[r]) :
                         e[1] = f[1] /\ KeyAt(cleaned[r], e) = KeyAt(cleaned[r], f)
                           => ValAt(cleaned[r], e) = ValAt(cleaned[r], f)
  BY DEF ReceivedIsClean
<1> DEFINE g == in[r].payload
<1>1. cleaned[r] = SanitizeObject(g)
  <2>1. RequestOK(stage[r], in[r], cleaned[r], outcome[r], answer[r], journal[r], samples[r])
    BY DEF AllOK
  <2> QED
    BY <2>1 DEF RequestOK, Passing
<1> HIDE DEF g
<1>2. Keys(cleaned[r]) = {SanitizedKey(k) : k \in Keys(g)}
  <2>1. /\ Entries(cleaned[r]) = Entries(g)
        /\ \A e \in Entries(g) : KeyAt(cleaned[r], e) = SanitizedKey(KeyAt(g, e))
    BY <1>1, SanitizedIs
  <2> QED
    BY <2>1 DEF Keys
<1>3. \A k : SanitizedKey(k) \notin Harmful
  BY RenamedAssumption DEF SanitizedKey
<1>4. ASSUME NEW e \in Entries(cleaned[r]), NEW f \in Entries(cleaned[r]),
             e[1] = f[1], KeyAt(cleaned[r], e) = KeyAt(cleaned[r], f)
      PROVE  ValAt(cleaned[r], e) = ValAt(cleaned[r], f)
  <2>1. e \in Entries(g) /\ f \in Entries(g)
    BY <1>1, SanitizedIs
  <2>2. SanitizedKey(KeyAt(g, e)) = SanitizedKey(KeyAt(g, f))
    BY <1>1, <1>4, <2>1, SanitizedIs
  <2>3. /\ ValAt(cleaned[r], e) = Latest(g, e[1], SanitizedKey(KeyAt(g, e)))
        /\ ValAt(cleaned[r], f) = Latest(g, f[1], SanitizedKey(KeyAt(g, f)))
    BY <1>1, <2>1, SanitizedIs
  <2> QED
    BY <1>4, <2>2, <2>3
<1> QED
  BY <1>2, <1>3, <1>4 DEF g

\* Of the context of an exception and of metadata nothing under a secret key is shown, and
\* of a graph that fits the depth all the rest, whatever cycles and shared objects it has;
\* in production neither stack nor the message or context of an internal error is sent.
THEOREM NothingSecretShown == PipelineSpec => [](RedactionIsExact /\ NothingInternalSent)
<1>1. AllOK => RedactionIsExact /\ NothingInternalSent
  BY RedactionHolds, NothingInternal
<1> QED
  BY <1>1, PipelineInvariant, PTL

\* What crosses the borders of the application, the payload included that the handler is
\* given, is clean.
THEOREM DataCorrect == PipelineSpec => []DataIsClean
<1>1. AllOK => DataIsClean
  BY RedactionHolds, NothingInternal, ReceivedHolds DEF DataIsClean
<1> QED
  BY <1>1, PipelineInvariant, PTL
=============================================================================
