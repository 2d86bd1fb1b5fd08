------------------------------- MODULE Bluez --------------------------------
(***************************************************************************)
(* RFCOMM over BlueZ (bluez_linux.go): a listener and a dial by UUID each  *)
(* register a profile object on the D-Bus system bus; BlueZ calls the      *)
(* object's NewConnection, Release and Cancel from goroutines of their     *)
(* own and hands over a file descriptor per connection, which passes a     *)
(* bounded channel to Accept or to the dialling goroutine.                 *)
(*                                                                         *)
(* dbus.SystemBus answers one connection shared by the whole process; the  *)
(* cleanup of either profile closes it.  BlueZ forgets the profiles of a   *)
(* closed connection without calling them.                                 *)
(***************************************************************************)
EXTENDS Naturals, Sequences

CONSTANTS
  MaxFds,    \* bound on the descriptors BlueZ hands over
  Backlog    \* capacity of acceptCh

ASSUME BluezAssumption == MaxFds \in Nat /\ Backlog \in Nat \ {0}

Fds == 1..MaxFds   \* numbered in the order in which they are handed over
Err == 0           \* the error entry finish puts into acceptCh

Profiles == {"listen", "dial"}

VARIABLES
  bus,     \* the shared system bus connection, 0 when none is open
  busSeq,  \* connections made so far
  prof,    \* profile objects: [bus, registered, closed, done, queue, cleaned],
           \* cleaned being "no", or who ran the cleanup: "owner", "overflow"
  fd,      \* each descriptor: "none", "called" and "checked" (in NewConnection),
           \* "queued", "taken" (by the accept loop), "managed", "dialled", "closed"
  at,      \* the profile a descriptor was handed to
  storing, \* descriptors in acceptCh whose NewConnection has yet to set closed
  dpc,     \* dialRFCOMMByUUIDBlueZ: "idle", "connect", "select", "cleanup",
           \* "ok", "failed"
  dctx,    \* the dial's context is done
  raced    \* history: descriptors handed over, not taken, when the one to take
           \* them left, or while a decided dial still let them in

calls == <<fd, at, storing>>
bluez == <<bus, busSeq, prof, calls, dpc, dctx, raced>>

NoProfile == [bus |-> 0, registered |-> FALSE, closed |-> FALSE, done |-> FALSE,
              queue |-> <<>>, cleaned |-> "no"]

BluezInit ==
  /\ bus = 0 /\ busSeq = 0
  /\ prof = [p \in Profiles |-> NoProfile]
  /\ fd = [f \in Fds |-> "none"] /\ at = [f \in Fds |-> "listen"]
  /\ storing = {} /\ dpc = "idle" /\ dctx = FALSE /\ raced = {}

\* BlueZ can call the profile: it is registered on a bus that is still open.
Reachable(p) == prof[p].registered /\ prof[p].bus = bus

Waiting(p) == {f \in Fds : at[f] = p /\ fd[f] \in {"called", "checked", "queued"}}

\* bluezProfile.finish: closed, doneCh, and an error entry if there is room.
Finish(pr) ==
  IF pr.closed THEN pr
  ELSE [pr EXCEPT !.closed = TRUE, !.done = TRUE,
                  !.queue = IF Len(@) < Backlog THEN Append(@, Err) ELSE @]

\* Faulty variant: the profile is not unregistered and the bus stays open.
CleanupKeeps(p, pr, who) ==
  /\ prof' = [prof EXCEPT ![p] = [pr EXCEPT !.cleaned = who]]
  /\ bus' = bus

\* The cleanup closure, once: unregister and close the (shared) bus; pr is
\* the profile object as the caller left it.
Cleanup(p, pr, who) ==
  /\ prof' = [prof EXCEPT ![p] =
                [pr EXCEPT !.registered = FALSE,
                           !.cleaned = IF @ = "no" THEN who ELSE @]]
  /\ bus' = IF pr.cleaned = "no" /\ pr.bus = bus THEN 0 ELSE bus

\* The listener's cleanup finishes the profile first.
ListenCleanup ==
  LET pr == prof["listen"] IN
  /\ Cleanup("listen", IF pr.cleaned = "no" THEN Finish(pr) ELSE pr, "owner")
  /\ raced' = raced \cup Waiting("listen")

\* SystemBus, Export, RegisterProfile.
SystemBus == IF bus = 0 THEN busSeq + 1 ELSE bus
Register(p) ==
  /\ bus' = SystemBus /\ busSeq' = IF bus = 0 THEN busSeq + 1 ELSE busSeq
  /\ prof' = [prof EXCEPT ![p] = [NoProfile EXCEPT !.bus = SystemBus,
                                                   !.registered = TRUE]]

\* A step of those fails: without a bus nothing happened; otherwise the
\* cleanup closes the bus, also when others were using it.
RegisterFails(p) ==
  \/ UNCHANGED <<bus, busSeq, prof>>
  \/ /\ busSeq' = IF bus = 0 THEN busSeq + 1 ELSE busSeq
     /\ bus' = 0
     /\ prof' = [prof EXCEPT ![p] = [NoProfile EXCEPT !.bus = SystemBus,
                                                      !.closed = (p = "listen"),
                                                      !.done = (p = "listen"),
                                                      !.cleaned = "owner"]]

-----------------------------------------------------------------------------
(* Calls from BlueZ *)

\* The dialling goroutine may still take what comes in.
DialWaits == dpc \in {"connect", "select"}

\* A dial was decided and its profile still lets connections in: it failed
\* without finish and is being unregistered, or it took a pipe whose
\* NewConnection has not set closed yet.
Ajar == ~DialWaits /\ ~prof["dial"].closed /\ (dpc = "cleanup" \/ storing # {})

\* BlueZ calls NewConnection, which runs in a goroutine of its own.
NewConnection(f, p) ==
  /\ fd[f] = "none" /\ (\A e \in 1..(f-1) : fd[e] # "none") /\ Reachable(p)
  /\ fd' = [fd EXCEPT ![f] = "called"]
  /\ at' = [at EXCEPT ![f] = p]
  /\ raced' = IF p = "dial" /\ Ajar THEN raced \cup {f} ELSE raced
  /\ UNCHANGED <<bus, busSeq, prof, storing, dpc, dctx>>

\* Its checks: a finished profile, or another adapter's device, closes the
\* descriptor.
CheckProfile(f) ==
  /\ fd[f] = "called"
  /\ \/ fd' = [fd EXCEPT ![f] = "closed"]
     \/ ~prof[at[f]].closed /\ fd' = [fd EXCEPT ![f] = "checked"]
  /\ UNCHANGED <<bus, busSeq, prof, at, storing, dpc, dctx, raced>>

\* The select at its end: into acceptCh.
Enqueue(f) ==
  LET p == at[f] IN
  /\ fd[f] = "checked" /\ Len(prof[p].queue) < Backlog
  /\ prof' = [prof EXCEPT ![p].queue = Append(@, f)]
  /\ fd' = [fd EXCEPT ![f] = "queued"]
  /\ storing' = IF p = "dial" THEN storing \cup {f} ELSE storing
  /\ UNCHANGED <<bus, busSeq, at, dpc, dctx, raced>>

\* After that, a dial's profile takes no more.
StoreClosed(f) ==
  /\ f \in storing /\ storing' = storing \ {f}
  /\ prof' = [prof EXCEPT !["dial"].closed = TRUE]
  /\ UNCHANGED <<bus, busSeq, fd, at, dpc, dctx, raced>>

\* The default of the select: the pipe is closed; closing a dial's pipe
\* runs the dial's cleanup.
BacklogFull(f) ==
  LET p == at[f] IN
  /\ fd[f] = "checked" /\ Len(prof[p].queue) = Backlog
  /\ fd' = [fd EXCEPT ![f] = "closed"]
  /\ IF p = "dial" THEN Cleanup(p, prof[p], "overflow") ELSE UNCHANGED <<bus, prof>>
  /\ UNCHANGED <<busSeq, at, storing, dpc, dctx, raced>>

\* Release: the profile was unregistered by BlueZ.  Cancel: a request was
\* withdrawn.  Both finish the profile object.
Release(p) ==
  /\ Reachable(p)
  /\ prof' = [prof EXCEPT ![p] = [Finish(prof[p]) EXCEPT !.registered = FALSE]]
  /\ UNCHANGED <<bus, busSeq, calls, dpc, dctx, raced>>
Cancel(p) ==
  /\ Reachable(p) /\ ~prof[p].closed
  /\ prof' = [prof EXCEPT ![p] = Finish(@)]
  /\ UNCHANGED <<bus, busSeq, calls, dpc, dctx, raced>>

-----------------------------------------------------------------------------
(* dialRFCOMMByUUIDBlueZ *)

DialStart ==
  /\ dpc = "idle"
  /\ \/ Register("dial") /\ dpc' = "connect"
     \/ RegisterFails("dial") /\ dpc' = "failed"
  /\ UNCHANGED <<calls, dctx, raced>>

\* Device1.ConnectProfile, which does not watch the context.
ConnectProfile ==
  /\ dpc = "connect" /\ prof["dial"].bus = bus
  /\ dpc' = "select"
  /\ UNCHANGED <<bus, busSeq, prof, calls, dctx, raced>>

\* The dial gives up: pr is the profile object after finish, if it was called.
DialFails(pr) ==
  /\ dpc' = "cleanup" /\ prof' = [prof EXCEPT !["dial"] = pr]
  /\ raced' = raced \cup Waiting("dial")
  /\ UNCHANGED <<bus, busSeq, calls, dctx>>

\* An error of ConnectProfile: the profile is not finished.
ConnectFails == dpc = "connect" /\ DialFails(prof["dial"])

\* The select, which takes any ready case.
DialCtxDone == dpc = "select" /\ dctx /\ DialFails(Finish(prof["dial"]))
DialAborted == dpc = "select" /\ prof["dial"].done /\ DialFails(prof["dial"])
DialError ==
  /\ dpc = "select" /\ prof["dial"].queue # <<>> /\ Head(prof["dial"].queue) = Err
  /\ DialFails([Finish(prof["dial"]) EXCEPT !.queue = Tail(@)])

\* The cleanup, whose Unregister is a call to BlueZ, and the return.
DialCleanup ==
  /\ dpc = "cleanup" /\ dpc' = "failed"
  /\ Cleanup("dial", prof["dial"], "owner")
  /\ UNCHANGED <<busSeq, calls, dctx, raced>>

\* Faulty variant: the cleanup runs although the pipe is returned.
TakesAndCleans ==
  LET q == prof["dial"].queue IN
  /\ dpc = "select" /\ q # <<>> /\ Head(q) # Err
  /\ dpc' = "ok" /\ fd' = [fd EXCEPT ![Head(q)] = "dialled"]
  /\ Cleanup("dial", [prof["dial"] EXCEPT !.queue = Tail(q)], "owner")
  /\ raced' = raced \cup (Waiting("dial") \ {Head(q)})
  /\ UNCHANGED <<busSeq, at, storing, dctx>>

DialTakes ==
  LET q == prof["dial"].queue IN
  /\ dpc = "select" /\ q # <<>> /\ Head(q) # Err
  /\ dpc' = "ok" /\ fd' = [fd EXCEPT ![Head(q)] = "dialled"]
  /\ prof' = [prof EXCEPT !["dial"].queue = Tail(q)]
  /\ raced' = raced \cup (Waiting("dial") \ {Head(q)})
  /\ UNCHANGED <<bus, busSeq, at, storing, dctx>>

\* bluezDialPipe.Close by the owner of the connection.
DialPipeClose(f) ==
  /\ fd[f] = "dialled"
  /\ fd' = [fd EXCEPT ![f] = "closed"]
  /\ Cleanup("dial", prof["dial"], "owner")
  /\ UNCHANGED <<busSeq, at, storing, dpc, dctx, raced>>

DialCtxEnds ==
  /\ ~dctx /\ dctx' = TRUE
  /\ UNCHANGED <<bus, busSeq, prof, calls, dpc, raced>>

Handler(f) == CheckProfile(f) \/ Enqueue(f) \/ BacklogFull(f) \/ StoreClosed(f)

FromBluez ==
  \/ \E f \in Fds, p \in Profiles : NewConnection(f, p)
  \/ \E f \in Fds : Handler(f)
  \/ \E p \in Profiles : Release(p) \/ Cancel(p)

DialSteps ==
  \/ DialStart \/ ConnectProfile \/ ConnectFails \/ DialCtxDone \/ DialAborted
  \/ DialError \/ DialCleanup \/ DialTakes \/ DialCtxEnds
  \/ \E f \in Fds : DialPipeClose(f)
=============================================================================
