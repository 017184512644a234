--------------------------- MODULE VisualizerProof ---------------------------
(***************************************************************************)
(* Theorems about Visualizer: the emulator is single-stepped by the keys   *)
(* the page sends, and the page gets its states in order, however messages *)
(* are glued together, for every number of cycles and of keys.             *)
(***************************************************************************)
EXTENDS Visualizer, FiniteSetTheorems, TLAPS

\* The places of the forward keys in s; Forwards counts them.
ForwardsAt(s) == {k \in DOMAIN s : s[k] = "Forward"}

\* The places of the forward keys of a finite sequence are finitely many.
LEMMA PlacesFinite ==
    ASSUME NEW s \in Seq(Keys)
    PROVE  /\ IsFiniteSet(ForwardsAt(s))
           /\ Forwards(s) = Cardinality(ForwardsAt(s))
           /\ Forwards(s) \in Nat
<1>1. IsFiniteSet(1..Len(s))
  BY FS_Interval
<1>2. ForwardsAt(s) \subseteq 1..Len(s)
  BY DEF ForwardsAt
<1>3. IsFiniteSet(ForwardsAt(s))
  BY <1>1, <1>2, FS_Subset
<1>4. Forwards(s) = Cardinality(ForwardsAt(s))
  BY DEF Forwards, ForwardsAt
<1>5. QED
  BY <1>3, <1>4, FS_CardinalityType

\* Nothing queued, no forward key.
LEMMA NoneInEmpty == Forwards(<<>>) = 0
<1>1. {k \in DOMAIN <<>> : <<>>[k] = "Forward"} = {}
  OBVIOUS
<1>2. QED
  BY <1>1, FS_EmptySet DEF Forwards

\* A key appended counts once if it is a forward key.
LEMMA ForwardsAppended ==
    ASSUME NEW s \in Seq(Keys), NEW key \in Keys
    PROVE  Forwards(Append(s, key)) =
             Forwards(s) + (IF key = "Forward" THEN 1 ELSE 0)
<1> DEFINE t == Append(s, key)
<1>1. /\ t \in Seq(Keys) /\ Len(t) = Len(s) + 1 /\ t[Len(s) + 1] = key
      /\ \A k \in 1..Len(s) : t[k] = s[k]
  OBVIOUS
<1>2. CASE key = "Forward"
  <2>1. ForwardsAt(t) = ForwardsAt(s) \cup {Len(s) + 1}
    BY <1>1, <1>2 DEF ForwardsAt
  <2>2. Len(s) + 1 \notin ForwardsAt(s)
    BY DEF ForwardsAt
  <2>3. Cardinality(ForwardsAt(t)) = Cardinality(ForwardsAt(s)) + 1
    BY <2>1, <2>2, PlacesFinite, FS_AddElement
  <2>4. QED
    BY <2>3, <1>1, <1>2, PlacesFinite
<1>3. CASE key # "Forward"
  <2>1. ForwardsAt(t) = ForwardsAt(s)
    BY <1>1, <1>3 DEF ForwardsAt
  <2>2. /\ Forwards(t) = Cardinality(ForwardsAt(t))
        /\ Forwards(s) = Cardinality(ForwardsAt(s)) /\ Forwards(s) \in Nat
    BY <1>1, PlacesFinite
  <2>3. QED
    BY <2>1, <2>2, <1>3
<1>4. QED
  BY <1>2, <1>3

\* What is behind the first n keys has no more forward keys than the whole,
\* and fewer if one of the n is a forward key.
LEMMA ForwardsBehind ==
    ASSUME NEW s \in Seq(Keys), NEW n \in 1..Len(s)
    PROVE  LET rest == SubSeq(s, n + 1, Len(s))
           IN /\ rest \in Seq(Keys)
              /\ Forwards(rest) <= Forwards(s)
              /\ Head(s) = "Forward" => Forwards(rest) + 1 <= Forwards(s)
<1> DEFINE rest == SubSeq(s, n + 1, Len(s))
           Place(k) == k + n
           There == {k + n : k \in ForwardsAt(rest)}
<1>1. /\ rest \in Seq(Keys) /\ Len(rest) = Len(s) - n
      /\ \A k \in 1..Len(rest) : rest[k] = s[k + n]
  OBVIOUS
<1>2. /\ There \subseteq ForwardsAt(s) /\ \A k \in There : k > n
  BY <1>1 DEF ForwardsAt
<1>3. IsFiniteSet(There) /\ Cardinality(There) = Cardinality(ForwardsAt(rest))
  <2> DEFINE f == [k \in ForwardsAt(rest) |-> k + n]
  <2>1. f \in Bijection(ForwardsAt(rest), There)
    BY <1>1 DEF Bijection, Injection, Surjection, IsInjective, ForwardsAt
  <2>2. ExistsBijection(ForwardsAt(rest), There)
    BY <2>1 DEF ExistsBijection
  <2>3. QED
    BY <1>1, <2>2, PlacesFinite, FS_Bijection
<1>4. Cardinality(There) <= Cardinality(ForwardsAt(s))
  BY <1>2, PlacesFinite, FS_Subset
<1>5. ASSUME Head(s) = "Forward"
      PROVE  Cardinality(There) + 1 <= Cardinality(ForwardsAt(s))
  <2>1. 1 \in ForwardsAt(s) /\ 1 \notin There
    BY <1>2, <1>5 DEF ForwardsAt
  <2>2. There \cup {1} \subseteq ForwardsAt(s)
    BY <1>2, <2>1
  <2>3. Cardinality(There \cup {1}) = Cardinality(There) + 1
    BY <1>3, <2>1, FS_AddElement
  <2>4. QED
    BY <2>2, <2>3, PlacesFinite, FS_Subset
<1>6. QED
  BY <1>1, <1>3, <1>4, <1>5, PlacesFinite

----------------------------------------------------------------------------
(* The invariant: types, a counted key for every cycle, and what they need.*)

\* A cycle that has begun without a state yet, the first one included.
Begun == IF emu \in {"accept", "write"} THEN 1 ELSE 0

\* The types.
Types ==
    /\ emu \in {"accept", "write", "recv", "closed"} /\ shown \in 0..Cycles
    /\ down \in Seq(States) /\ up \in Seq(Keys)
    /\ client \in {"none", "open", "ended", "closed"}
    /\ ws \in {"none", "open", "closed"}
    /\ wsDown \in Seq(Seq(States)) /\ wsUp \in Seq(Keys)
    /\ page \in {"connecting", "open", "closed", "gone"}
    /\ sent \in Nat /\ unparsed \subseteq States

\* The history has no gap, and what is displayed is in it.
History ==
    /\ pastData \in Seq(States)
    /\ currentIndex \in IF pastData = <<>> THEN {-1} ELSE 0..Latest

\* A state is written only in a cycle of the run, and the emulator waits only
\* behind one.
InRun ==
    /\ emu \in {"accept", "write"} => shown < Cycles
    /\ emu = "recv" => shown > 0

\* Only a page that goes makes the proxy end the stream.
EndedByPage == client = "ended" => page = "gone"

\* Every cycle begun but the first has had its key, and none counts twice.
Counted == Begun + shown + Forwards(up) + Forwards(wsUp) <= sent + 1
Single == page # "gone" => Counted

IInv == Types /\ InRun /\ History /\ EndedByPage /\ Single

\* The invariant holds at the start.
LEMMA InitInv == Init => IInv
<1> SUFFICES ASSUME Init PROVE IInv
  OBVIOUS
<1>1. Types /\ InRun /\ History /\ EndedByPage
  BY VisualizerAssumption
     DEF Init, Types, InRun, History, EndedByPage, States, Keys
<1>2. Single
  BY NoneInEmpty DEF Init, Single, Counted, Begun
<1>3. QED
  BY <1>1, <1>2 DEF IInv


\* A chunk is a part of the stream, and After is what is behind it.
LEMMA ChunkOf ==
    ASSUME NEW S, NEW q \in Seq(S), NEW chunk \in Chunks(q)
    PROVE  /\ chunk \in Seq(S) /\ After(q, chunk) \in Seq(S)
           /\ \E n \in 1..Len(q) : /\ After(q, chunk) = SubSeq(q, n + 1, Len(q))
                                   /\ Head(chunk) = Head(q)
<1>1. PICK n \in 1..Len(q) : chunk = SubSeq(q, 1, n)
  BY DEF Chunks
<1>2. chunk \in Seq(S) /\ Len(chunk) = n /\ Head(chunk) = Head(q)
  BY <1>1
<1>3. SubSeq(q, n + 1, Len(q)) \in Seq(S)
  OBVIOUS
<1>4. QED
  BY <1>2, <1>3 DEF After

\* A wait that ends begins a cycle, or the end.
LEMMA CycleEnds ==
    ASSUME Types, emu = "recv", EndCycle, UNCHANGED shown
    PROVE  /\ emu' \in {"write", "closed"}
           /\ emu' = "write" => shown < Cycles
           /\ Begun' \in {0, 1} /\ Begun = 0
BY VisualizerAssumption DEF Types, EndCycle, Begun

\* The emulator begins a cycle only once it may.
LEMMA EmulatorInv ==
    ASSUME IInv, accept \/ write_state \/ recv_eof
    PROVE  IInv'
<1> USE DEF IInv
<1>1. History' /\ (EndedByPage)'
  BY DEF accept, write_state, recv_eof, pageVars, History, Latest, EndedByPage
<1>2. CASE accept
  <2>1. Types' /\ InRun' /\ Single'
    BY <1>2 DEF accept, pageVars, Types, InRun, Single, Counted, Begun
  <2>2. QED
    BY <1>1, <2>1
<1>3. CASE write_state
  <2>1. shown < Cycles /\ shown + 1 \in States
    BY <1>3, VisualizerAssumption DEF write_state, InRun, Types, States
  <2>2. Types' /\ InRun'
    BY <1>3, <2>1, VisualizerAssumption
       DEF write_state, pageVars, Types, InRun
  <2>3. Single'
    BY <1>3, PlacesFinite
       DEF write_state, pageVars, Types, Single, Counted, Begun
  <2>4. QED
    BY <1>1, <2>2, <2>3
<1>4. CASE recv_eof
  <2>1. page' = "gone"
    BY <1>4 DEF recv_eof, pageVars, EndedByPage
  <2>2. Types' /\ InRun'
    BY <1>4, CycleEnds DEF recv_eof, pageVars, Types, InRun
  <2>3. QED
    BY <1>1, <2>1, <2>2 DEF Single
<1>5. QED
  BY <1>2, <1>3, <1>4

\* A chunk of keys begins at most one cycle, and takes its key away.
LEMMA RecvInv ==
    ASSUME IInv, NEW chunk \in Chunks(up), recv(chunk)
    PROVE  IInv'
<1> USE DEF IInv
<1>1. History' /\ EndedByPage'
  BY DEF recv, pageVars, History, Latest, EndedByPage
<1>2. PICK n \in 1..Len(up) : /\ up' = SubSeq(up, n + 1, Len(up))
                              /\ Head(chunk) = Head(up)
  BY ChunkOf DEF recv, Types
<1>3. up' \in Seq(Keys) /\ Forwards(up') <= Forwards(up)
      /\ (Head(up) = "Forward" => Forwards(up') + 1 <= Forwards(up))
      /\ Forwards(up') \in Nat /\ Forwards(up) \in Nat /\ Forwards(wsUp) \in Nat
  BY <1>2, ForwardsBehind, PlacesFinite DEF Types
<1>4. Types' /\ InRun'
  BY <1>3, CycleEnds DEF recv, pageVars, Types, InRun
<1>5. Single'
  <2>1. /\ shown' = shown /\ sent' = sent /\ page' = page /\ wsUp' = wsUp
        /\ shown \in Nat /\ sent \in Nat /\ Begun \in {0, 1}
    BY DEF recv, pageVars, Types, Begun
  <2>2. CASE Head(chunk) = "Forward"
    <3>1. emu = "recv" /\ EndCycle
      BY <2>2 DEF recv
    <3>2. Begun' \in {0, 1} /\ Begun = 0
      BY <2>1, <3>1, CycleEnds
    <3>3. Forwards(up') + 1 <= Forwards(up)
      BY <1>2, <1>3, <2>2
    <3>4. Begun' + shown + Forwards(up') + Forwards(wsUp)
             <= Begun + shown + Forwards(up) + Forwards(wsUp)
      BY <1>3, <2>1, <3>2, <3>3
    <3>5. Counted => Counted'
      BY <1>3, <2>1, <3>2, <3>4 DEF Counted
    <3>6. QED
      BY <2>1, <3>5 DEF Single
  <2>3. CASE Head(chunk) # "Forward"
    <3>1. Begun' = Begun
      BY <2>3 DEF recv, Begun
    <3>2. QED
      BY <1>3, <2>1, <3>1 DEF Single, Counted
  <2>4. QED
    BY <2>2, <2>3
<1>6. QED
  BY <1>1, <1>4, <1>5


\* The proxy passes keys on, neither more nor less, and ends the stream only
\* behind a page that has gone.
LEMMA ProxyInv ==
    ASSUME IInv,
           connection \/ ClientData \/ ws_message \/ ws_close \/ client_close
    PROVE  IInv'
<1> USE DEF IInv
<1>1. History' /\ InRun'
  BY DEF connection, ClientData, client_data, ws_message, ws_close,
         client_close, emuVars, pageVars, History, Latest, InRun
<1>2. CASE connection
  BY <1>1, <1>2 DEF connection, emuVars, pageVars, Types, EndedByPage, Single,
                    Counted, Begun
<1>3. CASE ClientData
  <2>1. PICK chunk \in Chunks(down) : client_data(chunk)
    BY <1>3 DEF ClientData
  <2>2. After(down, chunk) \in Seq(States) /\ chunk \in Seq(States)
    BY ChunkOf DEF Types
  <2>3. Types'
    BY <2>1, <2>2 DEF client_data, emuVars, pageVars, Types
  <2>4. EndedByPage' /\ Single'
    BY <2>1 DEF client_data, emuVars, pageVars, EndedByPage, Single, Counted,
                Begun
  <2>5. QED
    BY <1>1, <2>3, <2>4
<1>4. CASE ws_message
  <2>1. /\ Head(wsUp) \in Keys /\ Tail(wsUp) \in Seq(Keys)
        /\ wsUp' = Tail(wsUp) /\ Len(wsUp) > 0
    BY <1>4 DEF ws_message, Types
  <2>2. up' \in Seq(Keys)
    BY <1>4, <2>1 DEF ws_message, Types
  <2>3. Types' /\ EndedByPage'
    BY <1>4, <2>1, <2>2 DEF ws_message, emuVars, pageVars, Types, EndedByPage
  <2>4. Forwards(up') + Forwards(wsUp') <= Forwards(up) + Forwards(wsUp)
    <3>1. wsUp \in Seq(Keys) /\ 1 \in 1..Len(wsUp)
      BY <2>1 DEF Types
    <3>2. /\ Forwards(Tail(wsUp)) <= Forwards(wsUp)
          /\ Head(wsUp) = "Forward" =>
               Forwards(Tail(wsUp)) + 1 <= Forwards(wsUp)
      <4> DEFINE rest == SubSeq(wsUp, 1 + 1, Len(wsUp))
      <4>1. Tail(wsUp) = rest
        BY <3>1
      <4>2. /\ Forwards(rest) <= Forwards(wsUp)
            /\ Head(wsUp) = "Forward" => Forwards(rest) + 1 <= Forwards(wsUp)
        BY <3>1, ForwardsBehind
      <4> HIDE DEF rest
      <4>3. QED
        BY <4>1, <4>2
    <3>3. Forwards(Append(up, Head(wsUp))) =
            Forwards(up) + (IF Head(wsUp) = "Forward" THEN 1 ELSE 0)
      BY <2>1, ForwardsAppended DEF Types
    <3>4. up' = up \/ up' = Append(up, Head(wsUp))
      BY <1>4 DEF ws_message
    <3>5. /\ Forwards(up) \in Nat /\ Forwards(wsUp) \in Nat
          /\ Forwards(Tail(wsUp)) \in Nat
      BY <2>1, PlacesFinite DEF Types
    <3>6. CASE up' = up
      BY <2>1, <3>2, <3>5, <3>6
    <3>7. CASE up' = Append(up, Head(wsUp)) /\ Head(wsUp) = "Forward"
      BY <2>1, <3>2, <3>3, <3>5, <3>7
    <3>8. CASE up' = Append(up, Head(wsUp)) /\ Head(wsUp) # "Forward"
      BY <2>1, <3>2, <3>3, <3>5, <3>8
    <3>9. QED
      BY <3>4, <3>6, <3>7, <3>8
  <2>5. /\ Forwards(up) \in Nat /\ Forwards(wsUp) \in Nat
        /\ Forwards(up') \in Nat /\ Forwards(wsUp') \in Nat
    BY <2>1, <2>2, PlacesFinite DEF Types
  <2>6. /\ shown' = shown /\ sent' = sent /\ page' = page /\ Begun' = Begun
        /\ Begun \in {0, 1} /\ shown \in Nat /\ sent \in Nat
    BY <1>4 DEF ws_message, emuVars, pageVars, Begun, Types
  <2>7. Single'
    BY <2>4, <2>5, <2>6 DEF Single, Counted
  <2>8. QED
    BY <1>1, <2>3, <2>7
<1>5. CASE ws_close
  BY <1>1, <1>5 DEF ws_close, emuVars, pageVars, Types, EndedByPage, Single,
                    Counted, Begun
<1>6. CASE client_close
  BY <1>1, <1>6 DEF client_close, emuVars, pageVars, Types, EndedByPage, Single,
                    Counted, Begun
<1>7. QED
  BY <1>2, <1>3, <1>4, <1>5, <1>6

\* What the page does with states changes no key.
LEMMA PageInv ==
    ASSUME IInv, onopen \/ onmessage \/ onclose \/ step_history \/ close_page
    PROVE  IInv'
<1> USE DEF IInv
<1>1. InRun' /\ EndedByPage' /\ Single'
  BY DEF onopen, onmessage, onclose, step_history, close_page, emuVars, InRun,
         EndedByPage, Single, Counted, Begun, Types
<1>2. CASE onmessage
  <2> DEFINE message == Head(wsDown)
  <2>1. message \in Seq(States) /\ Tail(wsDown) \in Seq(Seq(States))
    BY <1>2 DEF onmessage, Types
  <2>2. History'
    <3>1. CASE Parses(message)
      <4>1. message[1] \in States
        BY <2>1, <3>1 DEF Parses
      <4>2. /\ pastData' = Append(pastData, message[1])
            /\ currentIndex' = Len(pastData)
        BY <1>2, <3>1 DEF onmessage
      <4>3. /\ pastData' \in Seq(States) /\ Len(pastData') = Len(pastData) + 1
            /\ Len(pastData) \in Nat
        BY <4>1, <4>2 DEF History
      <4>4. pastData' # <<>>
        BY <4>3
      <4>5. QED
        BY <4>2, <4>3, <4>4 DEF History, Latest
    <3>2. CASE ~Parses(message)
      BY <1>2, <3>2 DEF onmessage, History, Latest
    <3>3. QED
      BY <3>1, <3>2
  <2>3. {message[k] : k \in DOMAIN message} \subseteq States
    BY <2>1
  <2>4. Types'
    BY <1>2, <2>1, <2>3 DEF onmessage, emuVars, Types
  <2>5. QED
    BY <1>1, <2>2, <2>4
<1>3. CASE step_history
  <2>1. Types' /\ History'
    BY <1>3 DEF step_history, emuVars, Types, History, Latest
  <2>2. QED
    BY <1>1, <2>1
<1>4. CASE onopen \/ onclose \/ close_page
  <2>1. <<>> \in Seq(Seq(States))
    OBVIOUS
  <2>2. Types'
    BY <1>4, <2>1 DEF onopen, onclose, close_page, emuVars, Types
  <2>3. History'
    BY <1>4 DEF onopen, onclose, close_page, History, Latest
  <2>4. QED
    BY <1>1, <2>2, <2>3
<1>5. QED
  BY <1>2, <1>3, <1>4

\* A forward key that is sent is counted.
LEMMA KeyInv ==
    ASSUME IInv, NEW key \in Keys, keydown(key)
    PROVE  IInv'
<1> USE DEF IInv
<1>1. InRun' /\ EndedByPage'
  BY DEF keydown, emuVars, InRun, EndedByPage
<1>2. History'
  BY DEF keydown, History, Latest
<1>3. CASE page = "open"
  <2>1. wsUp' = Append(wsUp, key) /\ wsUp' \in Seq(Keys)
        /\ sent' = sent + (IF key = "Forward" THEN 1 ELSE 0)
    <3>1. wsUp' = Append(wsUp, key)
      BY <1>3 DEF keydown, Send
    <3>2. wsUp' \in Seq(Keys)
      BY <3>1 DEF Types
    <3>3. sent' = sent + (IF key = "Forward" THEN 1 ELSE 0)
      BY <1>3 DEF keydown, Send, Types
    <3>4. QED
      BY <3>1, <3>2, <3>3
  <2>2. Types'
    BY <2>1 DEF keydown, emuVars, Types
  <2>3. Forwards(wsUp') = Forwards(wsUp) + (IF key = "Forward" THEN 1 ELSE 0)
    BY <2>1, ForwardsAppended DEF Types
  <2>4. Single'
    <3>1. /\ shown' = shown /\ up' = up /\ page' = page /\ Begun' = Begun
          /\ Begun \in {0, 1} /\ shown \in Nat /\ sent \in Nat
      BY DEF keydown, emuVars, Begun, Types
    <3>2. Forwards(up) \in Nat /\ Forwards(wsUp) \in Nat
      BY PlacesFinite DEF Types
    <3>3. CASE key = "Forward"
      BY <2>1, <2>3, <3>1, <3>2, <3>3 DEF Single, Counted
    <3>4. CASE key # "Forward"
      BY <2>1, <2>3, <3>1, <3>2, <3>4 DEF Single, Counted
    <3>5. QED
      BY <3>3, <3>4
  <2>5. QED
    BY <1>1, <1>2, <2>2, <2>4
<1>4. CASE page # "open"
  BY <1>1, <1>2, <1>4
     DEF keydown, Send, emuVars, Types, Single, Counted, Begun
<1>5. QED
  BY <1>3, <1>4

\* Every step keeps the invariant.
LEMMA StepInv == IInv /\ [Next]_vars => IInv'
<1> SUFFICES ASSUME IInv, [Next]_vars PROVE IInv'
  OBVIOUS
<1>1. ASSUME UNCHANGED vars PROVE IInv'
  BY <1>1 DEF vars, emuVars, pageVars, IInv, Types, InRun, History, Latest,
              EndedByPage, Single, Counted, Begun
<1>2. ASSUME run_over PROVE IInv'
  BY <1>1, <1>2 DEF run_over
<1>3. ASSUME Recv PROVE IInv'
  BY <1>3, RecvInv DEF Recv
<1>4. ASSUME User PROVE IInv'
  BY <1>4, PageInv, KeyInv DEF User
<1>5. QED
  BY <1>1, <1>2, <1>3, <1>4, EmulatorInv, ProxyInv, PageInv DEF Next

\* The invariant holds throughout.
LEMMA Invariance == Spec => []IInv
BY InitInv, StepInv, PTL DEF Spec

\* app.js:226-376, proxy_server.js and proc.c:60-190: every variable keeps its
\* type; the history has no gap and what is displayed is in it.
THEOREM TypeCorrect == Spec => []TypeOK
<1>1. IInv => TypeOK
  BY DEF IInv, Types, History, TypeOK
<1>2. QED
  BY <1>1, Invariance, PTL

\* proc.c:168-189: whatever keys arrive together, and whenever the page goes,
\* no cycle begins without a forward key sent for it, and no key counts twice.
THEOREM SingleStepped == Spec => []KeysAccountedFor
<1>1. IInv => KeysAccountedFor
  <2> SUFFICES ASSUME IInv PROVE KeysAccountedFor
    OBVIOUS
  <2>1. Forwards(up) \in Nat /\ Forwards(wsUp) \in Nat
    BY PlacesFinite DEF IInv, Types
  <2>2. QED
    BY <2>1 DEF IInv, Single, Counted, Begun, Types, KeysAccountedFor
<1>2. QED
  BY <1>1, Invariance, PTL

----------------------------------------------------------------------------
(* The states on their way to the page.                                    *)

\* Every state in s comes before every one in t.
Precedes(s, t) == \A x \in Held(s), y \in Held(t) : x < y

\* A history p, messages w and a stream d hold states in order.
Ordered(p, w, d) ==
    /\ Increasing(p) /\ Increasing(d) /\ Precedes(p, d)
    /\ \A m \in DOMAIN w : /\ Increasing(w[m])
                           /\ Precedes(p, w[m]) /\ Precedes(w[m], d)
    /\ \A m, n \in DOMAIN w : m < n => Precedes(w[m], w[n])
InAll(p, w, d) == Held(p) \cup HeldIn(w) \cup Held(d)

\* Until the page goes the proxy's WebSocket is as open as its client, and the
\* states are in order and complete.
Arriving ==
    /\ client \in {"open", "ended"} => ws = "open"
    /\ unparsed \subseteq 1..shown
    /\ Ordered(pastData, wsDown, down)
    /\ InAll(pastData, wsDown, down) = (1..shown) \ unparsed
Arrive == page # "gone" => Arriving

\* The pieces in a row are the stream.
LEMMA StreamOfPieces ==
    ASSUME NEW p \in Seq(States), NEW w \in Seq(Seq(States)), NEW d \in Seq(States)
    PROVE  LET s == <<p>> \o w \o <<d>> IN
           /\ Ordered(p, w, d) => InOrder(s)
           /\ HeldIn(s) = InAll(p, w, d)
<1> DEFINE s == <<p>> \o w \o <<d>>
<1>1. /\ Len(w) \in Nat /\ DOMAIN w = 1..Len(w)
      /\ DOMAIN s = 1..(Len(w) + 2)
      /\ \A m \in DOMAIN s : s[m] = IF m = 1 THEN p
                                    ELSE IF m = Len(w) + 2 THEN d ELSE w[m - 1]
  OBVIOUS
<1> HIDE DEF s
<1>2. \A m \in DOMAIN s : m = 1 \/ m = Len(w) + 2 \/ m - 1 \in DOMAIN w
  BY <1>1
<1>3. ASSUME Ordered(p, w, d) PROVE InOrder(s)
  <2>1. \A m \in DOMAIN s : Increasing(s[m])
    BY <1>1, <1>2, <1>3 DEF Ordered
  <2>2. ASSUME NEW m \in DOMAIN s, NEW n \in DOMAIN s, m < n
        PROVE  Precedes(s[m], s[n])
    <3>1. m # Len(w) + 2 /\ n # 1
      BY <1>1, <2>2
    <3>2. CASE m = 1 /\ n = Len(w) + 2
      <4>1. s[m] = p /\ s[n] = d
        BY <1>1, <3>1, <3>2
      <4>2. QED
        BY <1>3, <4>1 DEF Ordered
    <3>3. CASE m = 1 /\ n # Len(w) + 2
      BY <1>1, <1>2, <1>3, <3>1, <3>3 DEF Ordered
    <3>4. CASE m # 1 /\ n = Len(w) + 2
      BY <1>1, <1>2, <1>3, <3>1, <3>4 DEF Ordered
    <3>5. CASE m # 1 /\ n # Len(w) + 2
      <4>1. m - 1 \in DOMAIN w /\ n - 1 \in DOMAIN w /\ m - 1 < n - 1
        BY <1>1, <1>2, <2>2, <3>1, <3>5
      <4>2. s[m] = w[m - 1] /\ s[n] = w[n - 1]
        BY <1>1, <3>1, <3>5
      <4>3. QED
        BY <1>3, <4>1, <4>2 DEF Ordered
    <3>6. QED
      BY <3>2, <3>3, <3>4, <3>5
  <2>3. QED
    BY <2>1, <2>2 DEF InOrder, Precedes
<1>4. HeldIn(s) = InAll(p, w, d)
  <2>1. ASSUME NEW m \in DOMAIN s
        PROVE  Held(s[m]) \subseteq InAll(p, w, d)
    <3>1. CASE m = 1
      BY <1>1, <3>1 DEF InAll
    <3>2. CASE m = Len(w) + 2
      BY <1>1, <3>2 DEF InAll
    <3>3. CASE m # 1 /\ m # Len(w) + 2
      <4>1. m - 1 \in DOMAIN w /\ s[m] = w[m - 1]
        BY <1>1, <1>2, <3>3
      <4>2. QED
        BY <4>1 DEF InAll, HeldIn
    <3>4. QED
      BY <3>1, <3>2, <3>3
  <2>2. /\ 1 \in DOMAIN s /\ s[1] = p
        /\ Len(w) + 2 \in DOMAIN s /\ s[Len(w) + 2] = d
    BY <1>1
  <2>3. \A m \in DOMAIN w : m + 1 \in DOMAIN s /\ s[m + 1] = w[m]
    BY <1>1
  <2>4. InAll(p, w, d) \subseteq HeldIn(s)
    <3>1. Held(p) \subseteq HeldIn(s) /\ Held(d) \subseteq HeldIn(s)
      BY <2>2 DEF HeldIn
    <3>2. HeldIn(w) \subseteq HeldIn(s)
      BY <2>3 DEF HeldIn
    <3>3. QED
      BY <3>1, <3>2 DEF InAll
  <2>5. QED
    BY <2>1, <2>4 DEF HeldIn
<1>5. QED
  BY <1>3, <1>4 DEF s

\* A state later than all is written behind them.
LEMMA WrittenBehind ==
    ASSUME NEW p \in Seq(States), NEW w \in Seq(Seq(States)), NEW d \in Seq(States),
           Ordered(p, w, d), NEW x \in States,
           \A y \in InAll(p, w, d) : y < x
    PROVE  /\ Ordered(p, w, Append(d, x))
           /\ InAll(p, w, Append(d, x)) = InAll(p, w, d) \cup {x}
<1> DEFINE e == Append(d, x)
<1>1. /\ DOMAIN e = DOMAIN d \cup {Len(d) + 1} /\ DOMAIN d = 1..Len(d)
      /\ \A k \in DOMAIN d : e[k] = d[k]
      /\ e[Len(d) + 1] = x /\ Len(d) \in Nat
  OBVIOUS
<1> HIDE DEF e
<1>2. Held(e) = Held(d) \cup {x}
  BY <1>1 DEF Held
<1>3. /\ \A y \in Held(d) : y < x
      /\ \A y \in Held(p) : y < x
      /\ \A m \in DOMAIN w : \A y \in Held(w[m]) : y < x
  BY DEF InAll, HeldIn
<1>4. Increasing(e)
  <2>1. \A j \in DOMAIN d : d[j] < x
    BY <1>3 DEF Held
  <2>2. QED
    BY <1>1, <2>1 DEF Ordered, Increasing
<1>5. Precedes(p, e) /\ \A m \in DOMAIN w : Precedes(w[m], e)
  BY <1>2, <1>3 DEF Ordered, Precedes
<1>6. Ordered(p, w, e)
  BY <1>4, <1>5 DEF Ordered
<1>7. QED
  BY <1>2, <1>6 DEF InAll, e

\* A chunk taken off the stream is the last message.
LEMMA ChunkPassed ==
    ASSUME NEW p \in Seq(States), NEW w \in Seq(Seq(States)), NEW d \in Seq(States),
           Ordered(p, w, d), NEW n \in 1..Len(d)
    PROVE  LET c == SubSeq(d, 1, n)
               e == SubSeq(d, n + 1, Len(d))
           IN /\ Ordered(p, Append(w, c), e)
              /\ InAll(p, Append(w, c), e) = InAll(p, w, d)
<1> DEFINE c == SubSeq(d, 1, n)
           e == SubSeq(d, n + 1, Len(d))
           v == Append(w, c)
<1>1. /\ Len(d) \in Nat /\ n \in Nat /\ n <= Len(d) /\ DOMAIN d = 1..Len(d)
      /\ DOMAIN c = 1..n /\ DOMAIN e = 1..(Len(d) - n)
      /\ \A k \in DOMAIN c : k \in DOMAIN d /\ c[k] = d[k]
      /\ \A k \in DOMAIN e : k + n \in DOMAIN d /\ e[k] = d[k + n]
      /\ c \in Seq(States) /\ e \in Seq(States)
  OBVIOUS
<1>2. /\ Len(w) \in Nat /\ DOMAIN w = 1..Len(w)
      /\ DOMAIN v = DOMAIN w \cup {Len(w) + 1}
      /\ \A m \in DOMAIN w : v[m] = w[m]
      /\ v[Len(w) + 1] = c
  <2>1. c \in Seq(States)
    BY <1>1
  <2> HIDE DEF c
  <2>2. QED
    BY <2>1
<1> HIDE DEF c, e, v
<1>3. Held(c) \subseteq Held(d) /\ Held(e) \subseteq Held(d)
  BY <1>1 DEF Held
<1>4. Held(d) = Held(c) \cup Held(e)
  <2>1. \A k \in DOMAIN d : k \in DOMAIN c \/ k - n \in DOMAIN e
    BY <1>1
  <2>2. \A k \in DOMAIN d : d[k] \in Held(c) \/ d[k] \in Held(e)
    <3>1. ASSUME NEW k \in DOMAIN d, k - n \in DOMAIN e
          PROVE  d[k] = e[k - n]
      BY <1>1, <3>1
    <3>2. QED
      BY <1>1, <2>1, <3>1 DEF Held
  <2>3. Held(d) \subseteq Held(c) \cup Held(e)
    BY <2>2 DEF Held
  <2>4. QED
    BY <1>3, <2>3
<1>5. Increasing(c) /\ Increasing(e) /\ Precedes(c, e)
  <2>1. \A j, k \in DOMAIN d : j < k => d[j] < d[k]
    BY DEF Ordered, Increasing
  <2>2. Increasing(c)
    BY <1>1, <2>1 DEF Increasing
  <2>3. Increasing(e)
    BY <1>1, <2>1 DEF Increasing
  <2>4. \A j \in DOMAIN c, k \in DOMAIN e : c[j] < e[k]
    BY <1>1, <2>1
  <2>5. QED
    BY <2>2, <2>3, <2>4 DEF Precedes, Held
<1>6. /\ Precedes(p, c) /\ Precedes(p, e)
      /\ \A m \in DOMAIN w : Precedes(w[m], c) /\ Precedes(w[m], e)
  BY <1>3 DEF Ordered, Precedes
<1>7. \A m \in DOMAIN v : /\ Increasing(v[m])
                          /\ Precedes(p, v[m]) /\ Precedes(v[m], e)
  BY <1>2, <1>5, <1>6 DEF Ordered
<1>8. \A m, k \in DOMAIN v : m < k => Precedes(v[m], v[k])
  BY <1>2, <1>6 DEF Ordered
<1>9. Ordered(p, v, e)
  BY <1>5, <1>6, <1>7, <1>8 DEF Ordered
<1>10. InAll(p, v, e) = InAll(p, w, d)
  <2>1. HeldIn(v) =
            HeldIn(w) \cup Held(c)
    BY <1>2 DEF HeldIn
  <2>2. QED
    BY <1>4, <2>1 DEF InAll
<1>11. QED
  BY <1>9, <1>10 DEF c, e, v

\* The first message is taken: its states are gone, or in the history.
LEMMA MessageTaken ==
    ASSUME NEW p \in Seq(States), NEW w \in Seq(Seq(States)), NEW d \in Seq(States),
           Ordered(p, w, d), w # <<>>
    PROVE  /\ Ordered(p, Tail(w), d)
           /\ InAll(p, Tail(w), d) = InAll(p, w, d) \ Held(Head(w))
           /\ \A x \in States : Head(w) = <<x>> =>
                 /\ Ordered(Append(p, x), Tail(w), d)
                 /\ InAll(Append(p, x), Tail(w), d) = InAll(p, w, d)
<1> DEFINE h == Head(w)
           v == Tail(w)
<1>1. /\ Len(w) \in Nat /\ DOMAIN w = 1..Len(w) /\ 1 \in DOMAIN w
      /\ h = w[1] /\ DOMAIN v = 1..(Len(w) - 1)
      /\ \A m \in DOMAIN v : m + 1 \in DOMAIN w /\ v[m] = w[m + 1]
  OBVIOUS
<1>2. \A m \in DOMAIN w : Held(w[m]) \subseteq States
  <2>1. \A m \in DOMAIN w : w[m] \in Seq(States)
    OBVIOUS
  <2>2. QED
    BY <2>1 DEF Held
<1> HIDE DEF h, v
<1>3. \A m \in DOMAIN w : m = 1 \/ m - 1 \in DOMAIN v
  BY <1>1
<1>4. /\ \A m \in DOMAIN v : /\ Increasing(v[m]) /\ Precedes(h, v[m])
                             /\ Precedes(p, v[m]) /\ Precedes(v[m], d)
      /\ Precedes(p, h) /\ Precedes(h, d) /\ Increasing(h)
  <2>1. /\ \A m \in DOMAIN w : /\ Increasing(w[m])
                               /\ Precedes(p, w[m]) /\ Precedes(w[m], d)
        /\ \A m, n \in DOMAIN w : m < n => Precedes(w[m], w[n])
    BY DEF Ordered
  <2>2. \A m \in DOMAIN v : 1 < m + 1 /\ m + 1 \in DOMAIN w
    BY <1>1
  <2>3. \A m \in DOMAIN v : Precedes(w[1], w[m + 1])
    BY <1>1, <2>1, <2>2
  <2>4. QED
    BY <1>1, <2>1, <2>3
<1>5. \A m, n \in DOMAIN v : m < n => Precedes(v[m], v[n])
  BY <1>1 DEF Ordered
<1>6. Ordered(p, v, d)
  BY <1>4, <1>5 DEF Ordered
<1>7. HeldIn(w) =
          Held(h) \cup HeldIn(v)
  <2>1. \A m \in DOMAIN w : m = 1 \/ w[m] = v[m - 1]
    BY <1>1, <1>3
  <2>2. HeldIn(w) \subseteq Held(h) \cup HeldIn(v)
    BY <1>1, <1>3, <2>1 DEF HeldIn
  <2>3. Held(h) \cup HeldIn(v) \subseteq HeldIn(w)
    BY <1>1 DEF HeldIn
  <2>4. QED
    BY <2>2, <2>3
<1>8. InAll(p, w, d) = InAll(p, v, d) \cup Held(h)
  BY <1>7 DEF InAll
<1>9. InAll(p, v, d) \cap Held(h) = {}
  <2>1. /\ Held(p) \subseteq States /\ Held(d) \subseteq States
        /\ Held(h) \subseteq States
        /\ \A m \in DOMAIN v : Held(v[m]) \subseteq States
    BY <1>1, <1>2 DEF Held
  <2>2. \A x \in Held(h) : /\ x \notin Held(p) /\ x \notin Held(d)
                           /\ \A m \in DOMAIN v : x \notin Held(v[m])
    BY <1>4, <2>1 DEF Precedes, States
  <2>3. QED
    BY <2>2 DEF InAll, HeldIn
<1>10. InAll(p, v, d) = InAll(p, w, d) \ Held(h)
  BY <1>8, <1>9
<1>11. ASSUME NEW x \in States, h = <<x>>
       PROVE  /\ Ordered(Append(p, x), v, d)
              /\ InAll(Append(p, x), v, d) = InAll(p, w, d)
  <2> DEFINE q == Append(p, x)
  <2>1. Held(h) = {x}
    BY <1>11 DEF Held
  <2>2. /\ Len(p) \in Nat /\ DOMAIN p = 1..Len(p)
        /\ DOMAIN q = DOMAIN p \cup {Len(p) + 1}
        /\ \A k \in DOMAIN p : q[k] = p[k]
        /\ q[Len(p) + 1] = x
    OBVIOUS
  <2> HIDE DEF q
  <2>3. Held(q) = Held(p) \cup {x}
    BY <2>2 DEF Held
  <2>4. Increasing(q)
    <3>1. \A k \in DOMAIN p : p[k] < x
      BY <1>4, <2>1 DEF Precedes, Held
    <3>2. QED
      BY <2>2, <3>1 DEF Ordered, Increasing
  <2>5. Precedes(q, d) /\ \A m \in DOMAIN v : Precedes(q, v[m])
    BY <1>4, <2>1, <2>3 DEF Ordered, Precedes
  <2>6. Ordered(q, v, d)
    BY <1>6, <2>4, <2>5 DEF Ordered
  <2>7. InAll(q, v, d) = InAll(p, w, d)
    BY <1>8, <2>1, <2>3 DEF InAll
  <2>8. QED
    BY <2>6, <2>7 DEF q
<1>12. QED
  BY <1>6, <1>10, <1>11 DEF h, v

\* Every step keeps the states in order and complete.
LEMMA ArriveStep ==
    ASSUME IInv, Arrive, [Next]_vars
    PROVE  Arrive'
<1>1. SUFFICES ASSUME page' # "gone", page # "gone", Arriving PROVE Arriving'
  <2>1. page = "gone" => page' = "gone"
    BY DEF Next, vars, emuVars, pageVars, accept, write_state, Recv, recv,
       recv_eof, connection, ClientData, client_data, ws_message, ws_close,
       client_close, onopen, onmessage, onclose, User, step_history, keydown,
       close_page, run_over
  <2>2. QED
    BY <2>1 DEF Arrive
<1>2. /\ pastData \in Seq(States) /\ wsDown \in Seq(Seq(States))
      /\ down \in Seq(States) /\ shown \in 0..Cycles /\ Cycles \in Nat
  BY VisualizerAssumption DEF IInv, Types, History
<1>3. CASE \/ accept \/ Recv \/ recv_eof \/ ws_message \/ client_close
           \/ onopen \/ onclose \/ User \/ run_over \/ UNCHANGED vars
  <2>1. UNCHANGED <<shown, down, wsDown, pastData, unparsed>>
    BY <1>1, <1>3
       DEF accept, Recv, recv, recv_eof, ws_message, client_close, onopen,
           onclose, User, step_history, keydown, close_page, run_over, vars,
           emuVars, pageVars
  <2>2. (client' = client /\ ws' = ws) \/ client' = "closed"
    BY <1>3
       DEF accept, Recv, recv, recv_eof, ws_message, client_close, onopen,
           onclose, User, step_history, keydown, close_page, run_over, vars,
           emuVars, pageVars
  <2>3. QED
    BY <1>1, <2>1, <2>2 DEF Arriving
<1>4. CASE connection
  BY <1>1, <1>4 DEF connection, Arriving, emuVars, pageVars
<1>5. CASE write_state
  <2>1. /\ shown' = shown + 1 /\ down' = Append(down, shown + 1)
        /\ UNCHANGED <<client, ws, wsDown, pastData, unparsed>>
    BY <1>5 DEF write_state, pageVars
  <2>2. \A y \in InAll(pastData, wsDown, down) : y < shown + 1
    BY <1>1, <1>2 DEF Arriving
  <2>3. /\ Ordered(pastData, wsDown, down')
        /\ InAll(pastData, wsDown, down') =
              InAll(pastData, wsDown, down) \cup {shown + 1}
    <3>1. shown + 1 \in States /\ Ordered(pastData, wsDown, down)
      BY <1>1, <1>2, <1>5 DEF Arriving, IInv, InRun, write_state, States
    <3>2. QED
      BY <1>2, <2>1, <2>2, <3>1, WrittenBehind
  <2>4. /\ unparsed \subseteq 1..(shown + 1)
        /\ ((1..shown) \ unparsed) \cup {shown + 1} = (1..(shown + 1)) \ unparsed
    BY <1>1, <1>2 DEF Arriving
  <2>5. QED
    BY <1>1, <2>1, <2>3, <2>4 DEF Arriving
<1>6. CASE ClientData
  <2>1. PICK chunk \in Chunks(down) : client_data(chunk)
    BY <1>6 DEF ClientData
  <2>2. PICK n \in 1..Len(down) : chunk = SubSeq(down, 1, n)
    BY <2>1 DEF Chunks
  <2>3. Len(chunk) = n
    BY <1>2, <2>2
  <2>4. /\ wsDown' = Append(wsDown, SubSeq(down, 1, n))
        /\ down' = SubSeq(down, n + 1, Len(down))
        /\ UNCHANGED <<shown, client, ws, pastData, unparsed>>
    BY <1>1, <2>1, <2>2, <2>3 DEF client_data, After, Arriving, emuVars, pageVars
  <2>5. /\ Ordered(pastData, wsDown', down')
        /\ InAll(pastData, wsDown', down') = InAll(pastData, wsDown, down)
    <3>1. Ordered(pastData, wsDown, down)
      BY <1>1 DEF Arriving
    <3>2. QED
      BY <1>2, <2>4, <3>1, ChunkPassed
  <2>6. QED
    BY <1>1, <2>4, <2>5 DEF Arriving
<1>7. CASE onmessage
  <2> DEFINE message == Head(wsDown)
  <2>1. /\ wsDown # <<>> /\ wsDown' = Tail(wsDown)
        /\ UNCHANGED <<shown, down, client, ws>>
    BY <1>7 DEF onmessage, emuVars
  <2>2. message \in Seq(States) /\ Ordered(pastData, wsDown, down)
    BY <1>1, <2>1 DEF IInv, Types, Arriving
  <2>3. /\ Ordered(pastData, Tail(wsDown), down)
        /\ InAll(pastData, Tail(wsDown), down) =
              InAll(pastData, wsDown, down) \ Held(message)
        /\ \A x \in States : message = <<x>> =>
              /\ Ordered(Append(pastData, x), Tail(wsDown), down)
              /\ InAll(Append(pastData, x), Tail(wsDown), down) =
                    InAll(pastData, wsDown, down)
    BY <1>2, <2>1, <2>2, MessageTaken
  <2>4. CASE Parses(message)
    <3>1. message[1] \in States /\ message = <<message[1]>>
      BY <2>2, <2>4 DEF Parses
    <3>2. pastData' = Append(pastData, message[1]) /\ unparsed' = unparsed
      BY <1>7, <2>4 DEF onmessage
    <3>3. QED
      BY <1>1, <2>1, <2>3, <3>1, <3>2 DEF Arriving
  <2>5. CASE ~Parses(message)
    <3>1. pastData' = pastData /\ unparsed' = unparsed \cup Held(message)
      BY <1>7, <2>5 DEF onmessage, Held
    <3>2. Held(message) \subseteq InAll(pastData, wsDown, down)
      <4>1. 1 \in DOMAIN wsDown /\ message = wsDown[1]
        BY <1>2, <2>1
      <4>2. QED
        BY <4>1 DEF InAll, HeldIn
    <3>3. unparsed' \subseteq 1..shown
      BY <1>1, <3>1, <3>2 DEF Arriving
    <3>4. InAll(pastData', wsDown', down') = (1..shown') \ unparsed'
      BY <1>1, <2>1, <2>3, <3>1 DEF Arriving
    <3>5. QED
      BY <1>1, <2>1, <2>3, <3>1, <3>3, <3>4 DEF Arriving
  <2>6. QED
    BY <2>4, <2>5
<1>8. ~ws_close
  BY <1>1 DEF ws_close
<1>9. QED
  BY <1>3, <1>4, <1>5, <1>6, <1>7, <1>8 DEF Next

\* proc.c:150-166, proxy_server.js:12-40 and app.js:226-262: however the
\* stream is cut into messages and whatever fails to parse, a page that stays
\* gets every other state once and in order, for every length of the run.
THEOREM StatesArrive == Spec => []StatesAccountedFor
<1>1. Init => Arrive
  BY DEF Init, Arrive, Arriving, Ordered, InAll, HeldIn, Increasing, Held,
         Precedes
<1>2. IInv /\ Arrive => StatesAccountedFor
  <2> SUFFICES ASSUME IInv, Arrive, page # "gone"
               PROVE  /\ InOrder(Stream)
                      /\ HeldIn(Stream) =
                            (1..shown) \ unparsed
    BY DEF StatesAccountedFor
  <2>1. /\ pastData \in Seq(States) /\ wsDown \in Seq(Seq(States))
        /\ down \in Seq(States)
    BY DEF IInv, Types, History
  <2>2. /\ Ordered(pastData, wsDown, down)
        /\ InAll(pastData, wsDown, down) = (1..shown) \ unparsed
    BY DEF Arrive, Arriving
  <2>3. QED
    BY <2>1, <2>2, StreamOfPieces DEF Stream
<1>3. IInv /\ Arrive /\ [Next]_vars => Arrive'
  BY ArriveStep
<1>4. QED
  BY <1>1, <1>2, <1>3, Invariance, PTL DEF Spec
=============================================================================
