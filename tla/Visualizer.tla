----------------------------- MODULE Visualizer -----------------------------
(***************************************************************************)
(* The visualizer: the emulator's loop (proc.c), which writes the state of *)
(* each cycle to a socket and waits there for a key; the proxy             *)
(* (proxy_server.js), which copies between that socket and a WebSocket;    *)
(* and the page (visualization/app.js), which keeps a history of states    *)
(* and sends key presses.  A state is the number of its cycle, from 1.     *)
(*                                                                         *)
(* The socket is a stream: what one read returns may hold several          *)
(* messages, so a read takes any non-empty prefix of what is queued.       *)
(* Messages are not cut in two: none is longer than the buffers they go    *)
(* through, and fewer keys are queued than recv's 2000 bytes hold.  The    *)
(* emulator listens before the proxy connects, and only the first page is  *)
(* served.                                                                 *)
(***************************************************************************)
EXTENDS Integers, Sequences, FiniteSets

CONSTANTS
    Cycles,         \* cycles the program runs for
    Cut,            \* cycles whose description overflows its 200 bytes
    MaxForward,     \* bound: forward keys the user sends
    MaxQueue        \* bound: keys under way

ASSUME VisualizerAssumption ==
    /\ Cycles \in Nat \ {0}
    /\ Cut \subseteq 1..Cycles
    /\ MaxForward \in Nat /\ MaxQueue \in Nat

VARIABLES
    emu,            \* where the emulator is
    shown,          \* states it has written
    down, up,       \* the TCP stream, from and to the emulator
    client,         \* the proxy's net.Socket
    ws,             \* the proxy's end of the WebSocket
    wsDown, wsUp,   \* the WebSocket's messages, to and from the page
    page,           \* the page's end of the WebSocket
    pastData,       \* the page's history
    currentIndex,   \* what it displays, from 0; -1 before the first state
    sent,           \* auxiliary: forward keys sent
    unparsed        \* auxiliary: states the page got but could not parse

emuVars == <<emu, shown>>
pageVars == <<page, pastData, currentIndex, sent, unparsed>>
vars == <<emuVars, down, up, client, ws, wsDown, wsUp, pageVars>>

States == 1..Cycles
\* ArrowRight and ArrowDown; ArrowLeft and ArrowUp; Enter.
Keys == {"Forward", "Back", "Enter"}

Chunks(q) == {SubSeq(q, 1, k) : k \in 1..Len(q)}
After(q, chunk) == SubSeq(q, Len(chunk) + 1, Len(q))

Init ==
    /\ emu = "accept" /\ shown = 0
    /\ down = <<>> /\ up = <<>>
    /\ client = "none" /\ ws = "none"
    /\ wsDown = <<>> /\ wsUp = <<>>
    /\ page = "connecting" /\ pastData = <<>> /\ currentIndex = -1
    /\ sent = 0 /\ unparsed = {}

----------------------------------------------------------------------------
(* The emulator.                                                           *)

accept ==
    /\ emu = "accept" /\ client \in {"open", "ended"}
    /\ emu' = "write"
    /\ UNCHANGED <<shown, down, up, client, ws, wsDown, wsUp, pageVars>>

write_state ==
    /\ emu = "write"
    /\ shown' = shown + 1
    /\ down' = Append(down, shown + 1)
    /\ emu' = "recv"
    /\ UNCHANGED <<up, client, ws, wsDown, wsUp, pageVars>>

\* The rest of the cycle, and the close of the sockets after the last one.
EndCycle == emu' = IF shown < Cycles THEN "write" ELSE "closed"

\* Mutants: any key ends the wait; the last key of a chunk counts.
recv_any(chunk) ==
    /\ emu = "recv" /\ up' = After(up, chunk) /\ EndCycle
    /\ UNCHANGED <<shown, down, client, ws, wsDown, wsUp, pageVars>>
recv_last(chunk) ==
    /\ emu = "recv"
    /\ up' = After(up, chunk)
    /\ IF chunk[Len(chunk)] = "Forward" THEN EndCycle ELSE emu' = emu
    /\ UNCHANGED <<shown, down, client, ws, wsDown, wsUp, pageVars>>

\* One recv: strstr finds the first key of what arrived, the rest is erased.
recv(chunk) ==
    /\ emu = "recv"
    /\ up' = After(up, chunk)
    /\ IF Head(chunk) = "Forward" THEN EndCycle ELSE emu' = emu
    /\ UNCHANGED <<shown, down, client, ws, wsDown, wsUp, pageVars>>

\* recv returns 0, which also ends the wait: the run goes on by itself.
recv_eof ==
    /\ emu = "recv" /\ up = <<>> /\ client = "ended"
    /\ EndCycle
    /\ UNCHANGED <<shown, down, up, client, ws, wsDown, wsUp, pageVars>>

----------------------------------------------------------------------------
(* The proxy, one action per callback.                                     *)

connection ==
    /\ ws = "none" /\ page = "connecting"
    /\ ws' = "open" /\ client' = "open"
    /\ UNCHANGED <<emuVars, down, up, wsDown, wsUp, pageVars>>

\* Mutant: only the first message of a chunk is taken off the stream.
client_data_again(chunk) ==
    /\ client \in {"open", "ended"}
    /\ down' = Tail(down)
    /\ wsDown' = IF ws = "open" THEN Append(wsDown, chunk) ELSE wsDown
    /\ UNCHANGED <<emuVars, up, client, ws, wsUp, pageVars>>

\* What a read returned becomes one message; on a closed ws it is dropped.
client_data(chunk) ==
    /\ client \in {"open", "ended"}
    /\ down' = After(down, chunk)
    /\ wsDown' = IF ws = "open" THEN Append(wsDown, chunk) ELSE wsDown
    /\ UNCHANGED <<emuVars, up, client, ws, wsUp, pageVars>>

\* Keys that come after the emulator has closed go nowhere.
ws_message ==
    /\ wsUp # <<>>
    /\ wsUp' = Tail(wsUp)
    /\ up' = IF client = "open" THEN Append(up, Head(wsUp)) ELSE up
    /\ UNCHANGED <<emuVars, down, client, ws, wsDown, pageVars>>

\* Mutant: client.end() is not called.
ws_close_only ==
    /\ ws = "open" /\ page = "gone" /\ wsUp = <<>>
    /\ ws' = "closed"
    /\ UNCHANGED <<emuVars, down, up, client, wsDown, wsUp, pageVars>>

ws_close ==
    /\ ws = "open" /\ page = "gone" /\ wsUp = <<>>
    /\ ws' = "closed"
    /\ client' = IF client = "open" THEN "ended" ELSE client
    /\ UNCHANGED <<emuVars, down, up, wsDown, wsUp, pageVars>>

\* Mutant: the socket is destroyed with data still unread.
client_close_early ==
    /\ client \in {"open", "ended"} /\ emu = "closed"
    /\ client' = "closed" /\ ws' = "closed" /\ down' = <<>>
    /\ UNCHANGED <<emuVars, up, wsDown, wsUp, pageVars>>

\* The emulator has closed and its last bytes are read.  If keys were left
\* unread the socket ends by an error, which nothing handles: the proxy
\* stops, and the WebSocket is closed all the same.
client_close ==
    /\ client \in {"open", "ended"} /\ emu = "closed" /\ down = <<>>
    /\ client' = "closed" /\ ws' = "closed"
    /\ UNCHANGED <<emuVars, down, up, wsDown, wsUp, pageVars>>

----------------------------------------------------------------------------
(* The page.                                                               *)

onopen ==
    /\ page = "connecting" /\ ws # "none"
    /\ page' = "open"
    /\ UNCHANGED <<emuVars, down, up, client, ws, wsDown, wsUp,
                   pastData, currentIndex, sent, unparsed>>

\* snprintf cuts off what does not fit, so that a brace is missing.
Complete(state) == state \notin Cut

\* JSON.parse accepts one state that is complete.
Parses(message) == Len(message) = 1 /\ Complete(message[1])

onmessage ==
    /\ page = "open" /\ wsDown # <<>>
    /\ wsDown' = Tail(wsDown)
    /\ LET message == Head(wsDown)
       IN IF Parses(message)
          THEN /\ pastData' = Append(pastData, message[1])
               /\ currentIndex' = Len(pastData)
               /\ UNCHANGED unparsed
          ELSE /\ unparsed' = unparsed \union {message[k] : k \in DOMAIN message}
               /\ UNCHANGED <<pastData, currentIndex>>
    /\ UNCHANGED <<emuVars, down, up, client, ws, wsUp, page, sent>>

onclose ==
    /\ page = "open" /\ ws = "closed" /\ wsDown = <<>>
    /\ page' = "closed"
    /\ UNCHANGED <<emuVars, down, up, client, ws, wsDown, wsUp,
                   pastData, currentIndex, sent, unparsed>>

Latest == Len(pastData) - 1

\* ws.send on a WebSocket that is closed does nothing.
Send(key) ==
    IF page = "open"
    THEN /\ Len(up) + Len(wsUp) < MaxQueue
         /\ wsUp' = Append(wsUp, key)
         /\ sent' = IF key = "Forward" THEN sent + 1 ELSE sent
    ELSE UNCHANGED <<wsUp, sent>>

\* A forward key steps through the history without being sent.
step_history ==
    /\ page \in {"open", "closed"} /\ currentIndex < Latest
    /\ currentIndex' = currentIndex + 1
    /\ UNCHANGED <<emuVars, down, up, client, ws, wsDown, wsUp,
                   page, pastData, sent, unparsed>>

\* Mutant: the first state is taken to have a predecessor.
keydown_below(key) ==
    /\ page \in {"open", "closed"}
    /\ key = "Forward" => currentIndex = Latest /\ sent < MaxForward
    /\ Send(key)
    /\ currentIndex' = CASE key = "Back" /\ currentIndex >= 0 -> currentIndex - 1
                         [] key = "Enter" -> Latest
                         [] OTHER -> currentIndex
    /\ UNCHANGED <<emuVars, down, up, client, ws, wsDown,
                   page, pastData, unparsed>>

\* Every other key press is sent, those that move in the history as well.
keydown(key) ==
    /\ page \in {"open", "closed"}
    /\ key = "Forward" => currentIndex = Latest /\ sent < MaxForward
    /\ Send(key)
    /\ currentIndex' = CASE key = "Back" /\ currentIndex > 0 -> currentIndex - 1
                         [] key = "Enter" -> Latest
                         [] OTHER -> currentIndex
    /\ UNCHANGED <<emuVars, down, up, client, ws, wsDown,
                   page, pastData, unparsed>>

\* The user closes or reloads the page.
close_page ==
    /\ page = "open"
    /\ page' = "gone" /\ wsDown' = <<>>
    /\ UNCHANGED <<emuVars, down, up, client, ws, wsUp,
                   pastData, currentIndex, sent, unparsed>>

run_over ==
    /\ emu = "closed" /\ client = "closed" /\ page \in {"closed", "gone"}
    /\ UNCHANGED vars

----------------------------------------------------------------------------

Recv == \E chunk \in Chunks(up) : recv(chunk)
ClientData == \E chunk \in Chunks(down) : client_data(chunk)
User == step_history \/ (\E key \in Keys : keydown(key)) \/ close_page

Next ==
    \/ accept \/ write_state \/ Recv \/ recv_eof
    \/ connection \/ ClientData \/ ws_message \/ ws_close \/ client_close
    \/ onopen \/ onmessage \/ onclose
    \/ User \/ run_over

\* Threads and event loops run on; nothing is asked of the user.
Fairness ==
    /\ WF_vars(accept) /\ WF_vars(write_state) /\ WF_vars(Recv \/ recv_eof)
    /\ WF_vars(connection) /\ WF_vars(ClientData) /\ WF_vars(ws_message)
    /\ WF_vars(ws_close) /\ WF_vars(client_close)
    /\ WF_vars(onopen) /\ WF_vars(onmessage) /\ WF_vars(onclose)

Spec == Init /\ [][Next]_vars /\ Fairness

----------------------------------------------------------------------------
(* Properties.                                                             *)

TypeOK ==
    /\ emu \in {"accept", "write", "recv", "closed"} /\ shown \in 0..Cycles
    /\ down \in Seq(States) /\ up \in Seq(Keys)
    /\ client \in {"none", "open", "ended", "closed"}
    /\ ws \in {"none", "open", "closed"}
    /\ wsDown \in Seq(Seq(States)) /\ wsUp \in Seq(Keys)
    /\ page \in {"connecting", "open", "closed", "gone"}
    /\ pastData \in Seq(States)
    /\ currentIndex \in IF pastData = <<>> THEN {-1} ELSE 0..Latest
    /\ sent \in Nat /\ unparsed \subseteq States

\* What a sequence holds; pieces that make up one stream in increasing order.
Held(s) == {s[k] : k \in DOMAIN s}
Increasing(s) == \A j, k \in DOMAIN s : j < k => s[j] < s[k]
InOrder(pieces) ==
    /\ \A m \in DOMAIN pieces : Increasing(pieces[m])
    /\ \A m, n \in DOMAIN pieces :
          m < n => \A x \in Held(pieces[m]), y \in Held(pieces[n]) : x < y
HeldIn(pieces) == UNION {Held(pieces[m]) : m \in DOMAIN pieces}

\* What the page has and what is on its way to it, in the order sent.
Stream == <<pastData>> \o wsDown \o <<down>>

\* As long as the page is there, its history and what is under way to it are
\* in the order of the cycles, without repetition, and hold every state the
\* emulator has written except those that did not parse.
StatesAccountedFor ==
    page # "gone" =>
        /\ InOrder(Stream)
        /\ HeldIn(Stream) = (1..shown) \ unparsed

Forwards(s) == Cardinality({k \in DOMAIN s : s[k] = "Forward"})

\* The emulator is single-stepped: as long as the page is there, the cycles
\* begun, after the first, and the forward keys still under way to the
\* emulator are no more than the forward keys the page has sent.
KeysAccountedFor ==
    page # "gone" =>
        shown + (IF emu = "write" THEN 1 ELSE 0) + Forwards(up) + Forwards(wsUp)
            <= sent + 1

\* A forward key that no other key is in front of moves the waiting emulator
\* on, whatever else is pressed after it.
ForwardKeyMovesOn ==
    \A n \in States :
        (/\ emu = "recv" /\ shown = n /\ up \o wsUp # <<>>
         /\ Head(up \o wsUp) = "Forward") ~> (shown > n \/ emu = "closed")

\* Every state comes to be in the history of a page that stays, unless it did
\* not parse; the close of the sockets after the last cycle loses none.
PageCatchesUp ==
    \A n \in States :
        (shown = n) ~> (page = "gone" \/ n \in unparsed
                          \/ \E k \in DOMAIN pastData : pastData[k] = n)

\* A page that goes does not leave the emulator waiting for its keys.
ClosedPageEndsRun == (page = "gone") ~> (emu = "closed")
============================================================================
