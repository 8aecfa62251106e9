--------------------------- MODULE TerminalSession ---------------------------
(***************************************************************************)
(* The shell in a container (frontend/src/pages/PodExecPage.tsx,             *)
(* internal/api/exec.go, io.go). The page dials a websocket for each choice   *)
(* of pod, container and shell; the server runs a goroutine that reads it     *)
(* into a pipe, and an executor that copies the pipe to the shell. The        *)
(* request's context does not end with the connection: the end of the browser *)
(* reaches the shell as the end of its input only. (What the shell prints     *)
(* takes the other direction through one writer and is left out.)            *)
(***************************************************************************)
EXTENDS Naturals, Sequences, Functions

CONSTANTS
    Pods,
    ContainersOf,   \* Pods -> the names of its containers, in order
    Shells,         \* the values of the shell's select
    Sessions,       \* 1..n: bound: the sockets that the page dials, in order
    PipeRead,       \* how much one Read of the pipe returns at most
    MaxTyped,       \* bound: the bytes typed, in all sessions
    MaxFlying       \* bound: the frames under way to the server

ASSUME TerminalAssumption ==
    /\ \A p \in Pods : ContainersOf[p] # <<>>
    /\ Sessions \subseteq Nat \ {0} /\ \A i \in Sessions : 1..i \subseteq Sessions
    /\ PipeRead \in Nat \ {0}

VARIABLES
    page,      \* what the page is about; container and known pod may be "none"
    current,   \* the session of the page's effect, 0 if none
    ses        \* Sessions -> the session, both ends

terminalVars == <<page, current, ses>>

Size == 0   \* a resize frame; bytes of the keyboard are numbered from 1
NoTarget == [pod |-> "none", container |-> "none", shell |-> "none"]
Unused == [dial |-> NoTarget, ws |-> "unused", typed |-> 0, up |-> <<>>, handler |-> "none",
           reader |-> "none", buf |-> <<>>, eof |-> FALSE, shell |-> "none",
           in |-> <<>>]
Numbers(n) == [k \in 1..n |-> k]
Total(Of(_)) == FoldFunction(LAMBDA a, b : a + b, 0, [i \in Sessions |-> Of(i)])
Lesser(a, b) == IF a < b THEN a ELSE b

TerminalInit ==
    /\ \E p \in Pods, sh \in Shells :
          page = [mounted |-> TRUE, pod |-> p, container |-> "none", shell |-> sh, known |-> "none"]
    /\ current = 0 /\ ses = [i \in Sessions |-> Unused]

-----------------------------------------------------------------------------
(* The page *)
Target(p) == [pod |-> p.pod, container |-> p.container, shell |-> p.shell]
(* Mutant of HangUp: the cleanup disposes of the terminal only. *)
HangUpLater(all, i) == all
(* The effect's cleanup: what was not sent yet is still sent. *)
HangUp(all, i) == IF i = 0 THEN all ELSE [all EXCEPT ![i].ws = "closed"]
Dial(all, i, p) == [all EXCEPT ![i].dial = Target(p), ![i].ws = "connecting"]
(* The page becomes p: the effect runs if what it depends on has changed. *)
PageBecomes(p) ==
    /\ page' = p
    /\ IF p.mounted /\ Target(p) = Target(page) THEN UNCHANGED <<current, ses>>
       ELSE IF p.mounted /\ p.container # "none"
       THEN \E i \in Sessions : /\ ses[i].ws = "unused" /\ \A j \in Sessions : j < i => ses[j].ws # "unused"
                                /\ current' = i /\ ses' = Dial(HangUp(ses, current), i, p)
       ELSE current' = 0 /\ ses' = HangUp(ses, current)

(* The pod's query answers: the first container is picked if there is none. A  *)
(* container that was picked for another pod stays picked.                   *)
PodKnown ==
    /\ page.mounted /\ page.known # page.pod
    /\ PageBecomes([page EXCEPT !.known = page.pod,
                                !.container = IF @ = "none" THEN ContainersOf[page.pod][1] ELSE @])
PickContainer(k) ==
    /\ page.mounted /\ page.known = page.pod /\ k \in 1..Len(ContainersOf[page.pod])
    /\ ContainersOf[page.pod][k] # page.container
    /\ PageBecomes([page EXCEPT !.container = ContainersOf[page.pod][k]])
PickShell(sh) == page.mounted /\ sh # page.shell /\ PageBecomes([page EXCEPT !.shell = sh])
TurnToPod(p) == page.mounted /\ p # page.pod /\ PageBecomes([page EXCEPT !.pod = p])
LeavePage == page.mounted /\ PageBecomes([page EXCEPT !.mounted = FALSE])

-----------------------------------------------------------------------------
(* The browser's end of session i *)
Opened(i) ==
    /\ ses[i].ws = "connecting" /\ ses[i].handler = "streaming"
    /\ ses' = [ses EXCEPT ![i].ws = "open", ![i].up = <<Size>>]
Press(i) ==
    /\ ses[i].ws = "open" /\ Total(LAMBDA j : ses[j].typed) < MaxTyped /\ Len(ses[i].up) < MaxFlying
    /\ ses' = [ses EXCEPT ![i].typed = @ + 1, ![i].up = Append(@, ses[i].typed + 1)]
ResizeWindow(i) ==
    /\ i = current /\ ses[i].ws = "open" /\ Len(ses[i].up) < MaxFlying
    /\ ses' = [ses EXCEPT ![i].up = Append(@, Size)]
SeesClose(i) ==
    /\ ses[i].ws \in {"connecting", "open"} /\ ses[i].handler = "returned"
    /\ ses' = [ses EXCEPT ![i].ws = "closed"]
(* The network fails: both ends learn of it, what was under way is lost. *)
NetworkFails(i) ==
    /\ ses[i].ws = "open"
    /\ ses' = [ses EXCEPT ![i].ws = "closed", ![i].up = <<>>]

-----------------------------------------------------------------------------
(* podExec and podAttach: the upgrade, whether or not the browser still waits *)
Upgrade(i) ==
    /\ ses[i].handler = "none" /\ ses[i].ws # "unused"
    /\ ses' = [ses EXCEPT ![i].handler = "streaming", ![i].reader = "reading"]
Refuse(i) ==
    /\ ses[i].handler = "none" /\ ses[i].ws # "unused"
    /\ ses' = [ses EXCEPT ![i].handler = "returned"]
(* The goroutine that reads the websocket. (The queue that it puts sizes into,  *)
(* which drops what does not fit, is left out.)                              *)
ReaderReads(i) ==
    /\ ses[i].reader = "reading" /\ ses[i].handler = "streaming" /\ ses[i].up # <<>>
    /\ LET frame == Head(ses[i].up)
       IN ses' = [ses EXCEPT ![i].up = Tail(@),
                             ![i].buf = IF frame = Size THEN @ ELSE Append(@, frame)]
(* Mutant of Closed: the goroutine leaves without closing the pipe. *)
LeftOpen(session) == [session EXCEPT !.reader = "done"]
Closed(session) == [session EXCEPT !.reader = "done", !.eof = TRUE]
ReaderEnds(i) ==
    /\ ses[i].reader = "reading"
    /\ ses[i].handler = "returned" \/ (ses[i].ws = "closed" /\ ses[i].up = <<>>)
    /\ ses' = [ses EXCEPT ![i] = Closed(@)]
HandlerReturns(i) ==
    /\ ses[i].handler = "streaming" /\ ses[i].shell = "ended"
    /\ ses' = [ses EXCEPT ![i].handler = "returned"]

(* The executor and the shell. A container that the pod has not got gives no  *)
(* shell; one that is there may be refused too.                              *)
Starts(i) ==
    /\ ses[i].handler = "streaming" /\ ses[i].shell = "none"
    /\ \E k \in 1..Len(ContainersOf[ses[i].dial.pod]) : ContainersOf[ses[i].dial.pod][k] = ses[i].dial.container
    /\ ses' = [ses EXCEPT ![i].shell = "running"]
StartFails(i) ==
    /\ ses[i].handler = "streaming" /\ ses[i].shell = "none"
    /\ ses' = [ses EXCEPT ![i].shell = "ended"]
Rest(buf, n) == SubSeq(buf, n + 1, Len(buf))
(* pipe.Read *)
CopyIn(i) ==
    /\ ses[i].shell = "running" /\ ses[i].buf # <<>>
    /\ LET n == Lesser(PipeRead, Len(ses[i].buf))
       IN ses' = [ses EXCEPT ![i].in = @ \o SubSeq(ses[i].buf, 1, n), ![i].buf = Rest(@, n)]
EndOfInput(i) ==
    /\ ses[i].shell = "running" /\ ses[i].eof /\ ses[i].buf = <<>>
    /\ ses' = [ses EXCEPT ![i].shell = "ended"]
ShellExits(i) ==
    /\ ses[i].shell = "running" /\ ses' = [ses EXCEPT ![i].shell = "ended"]

-----------------------------------------------------------------------------
BrowserEnd(i) == Opened(i) \/ Press(i) \/ ResizeWindow(i) \/ SeesClose(i) \/ NetworkFails(i)
Reader(i) == ReaderReads(i) \/ ReaderEnds(i)
Handler(i) == Upgrade(i) \/ Refuse(i) \/ HandlerReturns(i)
Executor(i) == Starts(i) \/ StartFails(i) \/ CopyIn(i) \/ EndOfInput(i)

TerminalNext ==
    \/ PodKnown \/ LeavePage
    \/ \E k \in 1..2 : PickContainer(k)
    \/ \E sh \in Shells : PickShell(sh)
    \/ \E p \in Pods : TurnToPod(p)
    \/ /\ UNCHANGED <<page, current>>
       /\ \E i \in Sessions : \/ BrowserEnd(i) \/ Reader(i) \/ Handler(i) \/ Executor(i) \/ ShellExits(i)

(* The goroutines of a session run on, and a shell ends at the end of its input. *)
ServerEnd(i) == (Reader(i) \/ Handler(i) \/ Executor(i)) /\ UNCHANGED <<page, current>>
TerminalFairness == \A i \in Sessions : WF_terminalVars(ServerEnd(i))
TerminalSpec == TerminalInit /\ [][TerminalNext]_terminalVars /\ TerminalFairness

-----------------------------------------------------------------------------
(* Bytes reach the shell in the order in which they were typed in its          *)
(* terminal, none twice and none lost unless the connection broke.           *)
Received(s) == s.in \o s.buf   \* by the server
IsByte(s, k) == s.up[k] # Size
NextUnderWay(s, k) ==
    /\ \A j \in DOMAIN s.up : j < k /\ IsByte(s, j) => s.up[j] < s.up[k]
    /\ \/ s.up[k] = Len(Received(s)) + 1
       \/ \E j \in DOMAIN s.up : j < k /\ IsByte(s, j) /\ s.up[k] = s.up[j] + 1
InTypedOrder(s) ==
    /\ Received(s) = Numbers(Len(Received(s)))
    /\ \A k \in DOMAIN s.up :
          IsByte(s, k) => s.up[k] \in (Len(Received(s)) + 1)..s.typed /\ NextUnderWay(s, k)
NothingLost(s) ==
    \/ Len(Received(s)) = s.typed
    \/ \E k \in DOMAIN s.up : IsByte(s, k) /\ s.up[k] = s.typed
BytesInOrder ==
    \A i \in Sessions :
        InTypedOrder(ses[i]) /\ (ses[i].ws = "open" => NothingLost(ses[i]))

(* The terminal on the screen is that of the pod, container and shell in its   *)
(* header, and no other socket of the page is open.                          *)
TerminalFollowsPage ==
    /\ page.mounted /\ current # 0 => ses[current].dial = Target(page)
    /\ current = 0 => ~page.mounted \/ page.container = "none"
    /\ \A i \in Sessions \ {current} : ses[i].ws \in {"unused", "closed"}

(* Both: what is seen and typed in the page is of the shell that it names.      *)
TerminalIsFaithful == BytesInOrder /\ TerminalFollowsPage

(* Once the browser has gone, by a click or by the network, the goroutines of   *)
(* its session end, and the shell with them.                                 *)
SessionsEnd ==
    \A i \in Sessions :
        ses[i].ws = "closed" ~> /\ ses[i].handler = "returned" /\ ses[i].reader \in {"none", "done"}
                                /\ ses[i].shell \in {"none", "ended"}
=============================================================================
