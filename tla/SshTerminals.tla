-------------------------- MODULE SshTerminals --------------------------
(***************************************************************************)
(* The SSH terminal: TerminalPage, its IPC calls, and the sessions of      *)
(* NodeSshTerminalManager.                                                 *)
(*                                                                         *)
(* A page makes up one session id when it is mounted and uses it for every *)
(* connection; sessions of different ids share nothing but closeAll().     *)
(* One page is modelled.  The events of a connection name the id, not the  *)
(* connection: they end whatever session the id has by then.               *)
(*                                                                         *)
(* Electron delivers calls in the order of their sending, and answers and  *)
(* events too.  The data of a terminal is left out.                        *)
(***************************************************************************)
EXTENDS Naturals, Sequences

CONSTANTS MaxOpens,  \* connections the page asks for
          MaxQueued  \* bound on calls that are on their way, and on the messages
                     \* to the page while it is typed into

VARIABLES terminalPage, \* what the page shows, and its connectedRef
          toMain,       \* calls on their way to the main process
          toPage,       \* answers and events on their way to the page
          links,        \* the connections, in the order they were asked for
          entry,        \* the connection in the manager's map, 0 for none
          workspace     \* whether the project is open

terminalVars == <<terminalPage, toMain, toPage, links, entry, workspace>>

Link(phase) == [phase |-> phase, answered |-> FALSE, ended |-> FALSE, failed |-> FALSE]

Sends(name) == Len(toMain) < MaxQueued /\ toMain' = Append(toMain, name)
Handled(name) == toMain # <<>> /\ Head(toMain) = name /\ toMain' = Tail(toMain)

------------------------------------------------------------------------------
(* The page.                                                                 *)

\* The button is there while nothing is under way and nothing connected.
Connect ==
  /\ terminalPage.mounted /\ terminalPage.shows = "disconnected"
  /\ Len(links) + Len(SelectSeq(toMain, LAMBDA name : name = "open")) < MaxOpens
  /\ terminalPage' = [terminalPage EXCEPT !.shows = "connecting"]
  /\ Sends("open")
  /\ UNCHANGED <<toPage, links, entry, workspace>>

Disconnect ==
  /\ terminalPage.mounted /\ terminalPage.shows = "connected" /\ terminalPage.connected
  /\ terminalPage' = [terminalPage EXCEPT !.shows = "disconnected", !.connected = FALSE]
  /\ Sends("close")
  /\ UNCHANGED <<toPage, links, entry, workspace>>

Type ==
  /\ terminalPage.mounted /\ terminalPage.connected /\ Len(toPage) < MaxQueued
  /\ Sends("write")
  /\ UNCHANGED <<terminalPage, toPage, links, entry, workspace>>

\* A page that is left closes what it knows to be connected.
Leave ==
  /\ terminalPage.mounted
  /\ terminalPage' = [terminalPage EXCEPT !.mounted = FALSE, !.connected = FALSE]
  /\ IF terminalPage.connected THEN Sends("close") ELSE UNCHANGED toMain
  /\ UNCHANGED <<toPage, links, entry, workspace>>

\* Variant: once connected, the page takes no notice of a closed session.
DeafWhileConnected(message, page) ==
  IF message = "closed" /\ page.shows = "connected" THEN page
  ELSE [page EXCEPT !.shows = IF message = "opened" THEN "connected" ELSE "disconnected",
                    !.connected = message = "opened"]

\* A failed open leaves connectedRef as it is.
Shown(message, page) ==
  CASE message = "opened" -> [page EXCEPT !.shows = "connected", !.connected = TRUE]
    [] message = "open failed" -> [page EXCEPT !.shows = "disconnected"]
    [] message \in {"closed", "write failed"} ->
         [page EXCEPT !.shows = "disconnected", !.connected = FALSE]

PageReceives ==
  /\ toPage # <<>>
  /\ toPage' = Tail(toPage)
  /\ terminalPage' = IF terminalPage.mounted THEN Shown(Head(toPage), terminalPage)
                     ELSE terminalPage
  /\ UNCHANGED <<toMain, links, entry, workspace>>

------------------------------------------------------------------------------
(* The manager.                                                              *)

Tell(messages) == toPage' = toPage \o messages
Unless(answered, message) == IF answered THEN <<>> ELSE <<message>>

\* endSession(): ends the id's session, whichever connection that is.
EndSession(after) ==
  /\ entry' = 0
  /\ links' = IF entry = 0 THEN after ELSE [after EXCEPT ![entry].ended = TRUE]
  /\ Tell(IF entry = 0 THEN <<>> ELSE <<"closed">>)

HandleOpen ==
  /\ Handled("open")
  /\ IF workspace
     THEN links' = Append(links, Link("resolving")) /\ UNCHANGED toPage
     ELSE Tell(<<"open failed">>) /\ UNCHANGED links
  /\ UNCHANGED <<terminalPage, entry, workspace>>

\* open() closes the session there is, then connects.
Resolved(c) ==
  /\ links[c].phase = "resolving"
  /\ EndSession([links EXCEPT ![c].phase = "connecting"])
  /\ UNCHANGED <<terminalPage, toMain, workspace>>

NotResolved(c) ==
  /\ links[c].phase = "resolving"
  /\ links' = [links EXCEPT ![c].phase = "over", ![c].answered = TRUE]
  /\ Tell(<<"open failed">>)
  /\ UNCHANGED <<terminalPage, toMain, entry, workspace>>

Ready(c) ==
  /\ links[c].phase = "connecting" /\ ~links[c].ended
  /\ links' = [links EXCEPT ![c].phase = "asked"]
  /\ UNCHANGED <<terminalPage, toMain, toPage, entry, workspace>>

\* The shell may open although the call was answered by the timer.
ShellOpened(c) ==
  /\ links[c].phase = "asked"
  /\ entry' = c
  /\ links' = [links EXCEPT ![c].phase = "shell", ![c].answered = TRUE]
  /\ Tell(Unless(links[c].answered, "opened"))
  /\ UNCHANGED <<terminalPage, toMain, workspace>>

FailedLink(c, phase) ==
  [links EXCEPT ![c].phase = phase, ![c].answered = TRUE, ![c].ended = TRUE,
                ![c].failed = TRUE]

ShellRefused(c) ==
  /\ links[c].phase = "asked"
  /\ links' = FailedLink(c, "over")
  /\ Tell(Unless(links[c].answered, "open failed"))
  /\ UNCHANGED <<terminalPage, toMain, entry, workspace>>

TimedOut(c) ==
  /\ links[c].phase \in {"connecting", "asked"} /\ ~links[c].answered
  /\ links' = [links EXCEPT ![c].answered = TRUE, ![c].ended = TRUE]
  /\ Tell(<<"open failed">>)
  /\ UNCHANGED <<terminalPage, toMain, entry, workspace>>

\* A connection reports its first error: before the answer it is the answer, after
\* it the end of the id's session.
Errors(c) ==
  /\ links[c].phase \in {"connecting", "asked", "shell"} /\ ~links[c].failed
  /\ IF links[c].answered
     THEN EndSession([links EXCEPT ![c].failed = TRUE,
                                   ![c].phase = IF @ = "shell" THEN @ ELSE "over"])
     ELSE /\ links' = FailedLink(c, "over")
          /\ Tell(<<"open failed">>)
          /\ UNCHANGED entry
  /\ UNCHANGED <<terminalPage, toMain, workspace>>

\* The shell exits, or the connection that carries it ends.
StreamCloses(c) ==
  /\ links[c].phase = "shell"
  /\ EndSession([links EXCEPT ![c].phase = "over"])
  /\ UNCHANGED <<terminalPage, toMain, workspace>>

HandleClose ==
  /\ Handled("close")
  /\ IF workspace THEN EndSession(links) ELSE UNCHANGED <<toPage, links, entry>>
  /\ UNCHANGED <<terminalPage, workspace>>

HandleWrite ==
  /\ Handled("write")
  /\ Tell(IF workspace /\ entry # 0 THEN <<>> ELSE <<"write failed">>)
  /\ UNCHANGED <<terminalPage, links, entry, workspace>>

\* Calls that are not answered yet hold leases, and the teardown is refused.
LockWorkspace ==
  /\ workspace
  /\ \A c \in DOMAIN links : links[c].answered
  /\ workspace' = FALSE
  /\ EndSession(links)
  /\ UNCHANGED <<terminalPage, toMain>>

------------------------------------------------------------------------------

TerminalInit ==
  /\ terminalPage = [mounted |-> TRUE, shows |-> "disconnected", connected |-> FALSE]
  /\ toMain = <<>> /\ toPage = <<>>
  /\ links = <<>> /\ entry = 0
  /\ workspace = TRUE

TerminalNext ==
  \/ Connect \/ Disconnect \/ Type \/ Leave \/ PageReceives
  \/ HandleOpen \/ HandleClose \/ HandleWrite \/ LockWorkspace
  \/ \E c \in DOMAIN links :
       \/ Resolved(c) \/ NotResolved(c) \/ Ready(c) \/ ShellOpened(c) \/ ShellRefused(c)
       \/ TimedOut(c) \/ Errors(c) \/ StreamCloses(c)

TerminalSpec == TerminalInit /\ [][TerminalNext]_terminalVars

------------------------------------------------------------------------------
(* Properties.                                                               *)

\* Once everything sent has arrived, a page that shows itself connected has a
\* session, and that session's shell has not ended: whatever connections were
\* opened over each other under its id, timed out, failed or were closed late
\* (onClosed as the page's only way to learn of it).
ConnectedIsOpen ==
  terminalPage.mounted /\ terminalPage.shows = "connected" /\ toPage = <<>> =>
    entry # 0 /\ links[entry].phase = "shell"
==============================================================================
