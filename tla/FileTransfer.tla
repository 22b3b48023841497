---------------------------- MODULE FileTransfer ----------------------------
(***************************************************************************)
(* Downloading offered files: the native jobs (node.rs) composed with the  *)
(* plugin's list of offers (LanternService.cs, FileOffers.cs).             *)
(*                                                                         *)
(* Three kinds of actors touch the same transfer.  Network tasks learn of  *)
(* offers and withdrawals; a native job fetches, checks, writes and then   *)
(* reports one terminal event; the plugin's frame thread starts, cancels,  *)
(* mutes, blocks, and takes events.  The thread works through onFramework  *)
(* and node.Poll: while it is inside Node::block it does nothing else.     *)
(* Handles are fresh numbers: a blob is offered at most once.              *)
(***************************************************************************)
EXTENDS FileOffers, Sequences

CONSTANTS
    MaxPaths,       \* bound: destinations ever chosen
    MaxLosses       \* bound: events the full channel drops

ASSUME BoundAssumption == MaxPaths \in Nat /\ MaxLosses \in Nat

VARIABLES
    blobs,          \* Shared::blobs, the remote ones
    seen,           \* handles given out
    announcing,     \* blobs just admitted, whose BlobOffer is yet to be emitted
    blocked,        \* Shared::blocked, and the plugin's copy of it
    job,            \* Shared::file_jobs, file_downloads and the spawned tasks
    withdrawing,    \* blobs forget_remote_blobs removed and has not signalled
    blocking,       \* where the frame thread is inside Node::block
    disk,           \* files of the download folder
    events,         \* the bounded event channel
    lost,           \* events it dropped
    offers,         \* FileOffers
    queued,         \* queuedFileDownloads
    prep,           \* preparations of DownloadFile, by destination
    muted           \* peers whose key is muted

vars == <<blobs, seen, announcing, blocked, job, withdrawing, blocking, disk, events, lost, offers, queued, prep, muted>>
native == <<blobs, seen, announcing, blocked, withdrawing, blocking>>
plugin == <<offers, queued, prep, muted>>

Paths == 1 .. MaxPaths
NoJob == [pc |-> "none", cancel |-> FALSE, path |-> NoPath]
NoPrep == [pc |-> "none", blob |-> NoPath, kept |-> {}, gone |-> {}, bad |-> FALSE]
NotBlocking == [pc |-> "none", peers |-> {}, removed |-> {}]

Init ==
    /\ blobs = {} /\ seen = {} /\ announcing = {} /\ blocked = {} /\ withdrawing = {}
    /\ blocking = NotBlocking
    /\ job = [b \in Blobs |-> NoJob]
    /\ disk = [d \in Paths |-> "absent"]
    /\ events = <<>> /\ lost = {}
    /\ offers = [b \in Blobs |-> Absent]
    /\ queued = {} /\ muted = {}
    /\ prep = [d \in Paths |-> NoPrep]

-----------------------------------------------------------------------------
(* The event channel                                                       *)

Event(kind, b) == [kind |-> kind, blob |-> b]

(* Shared::emit: a full channel drops the event.                           *)
Emit(e) ==
    \/ events' = Append(events, e) /\ UNCHANGED lost
    \/ Cardinality(lost) < MaxLosses /\ lost' = lost \cup {e} /\ UNCHANGED events

-----------------------------------------------------------------------------
(* Native: what the network tasks learn                                    *)

(* A BlobOffer frame or Wire::FileOffer: the blob is admitted...           *)
OfferArrives(b) ==
    /\ b \notin seen
    /\ SenderOf[b] \notin blocked
    /\ Cardinality({c \in blobs : SenderOf[c] = SenderOf[b]}) < PeerCapacity
    /\ seen' = seen \cup {b}
    /\ blobs' = blobs \cup {b}
    /\ announcing' = announcing \cup {b}
    /\ UNCHANGED <<blocked, job, withdrawing, blocking, disk, events, lost>> /\ UNCHANGED plugin

(* ...and announced, with the locks of the block list and of the rooms or  *)
(* friends held over both steps.                                           *)
Announce(b) ==
    /\ b \in announcing
    /\ announcing' = announcing \ {b}
    /\ Emit(Event("Offer", b))
    /\ UNCHANGED <<blobs, seen, blocked, job, withdrawing, blocking, disk>> /\ UNCHANGED plugin

(* Mutation: the locks are given back after admission.                     *)
UnofferUnlocked(b) ==
    /\ b \in blobs
    /\ blobs' = blobs \ {b}
    /\ withdrawing' = withdrawing \cup {b}
    /\ UNCHANGED <<seen, announcing, blocked, job, blocking, disk, events, lost>> /\ UNCHANGED plugin

(* forget_remote_blobs, first half: the blobs go under their own lock.     *)
(* The peer withdraws in the task that handles its offers; a leave or an   *)
(* unfriend waits for the locks of one that is being announced.            *)
Unoffer(b) ==
    /\ b \in blobs \ announcing
    /\ blobs' = blobs \ {b}
    /\ withdrawing' = withdrawing \cup {b}
    /\ UNCHANGED <<seen, announcing, blocked, job, blocking, disk, events, lost>> /\ UNCHANGED plugin

(* What a cancel sender does: nothing where no job is registered.          *)
Signal(j, S) == [b \in Blobs |-> IF b \in S /\ j[b].pc # "none" THEN [j[b] EXCEPT !.cancel = TRUE] ELSE j[b]]

(* Its second half: under the lock of the jobs, the job is told and the    *)
(* withdrawal announced.                                                   *)
Withdrawn(b) ==
    /\ b \in withdrawing
    /\ withdrawing' = withdrawing \ {b}
    /\ job' = Signal(job, {b})
    /\ Emit(Event("Withdrawn", b))
    /\ UNCHANGED <<blobs, seen, announcing, blocked, blocking, disk>> /\ UNCHANGED plugin

-----------------------------------------------------------------------------
(* Native: a download job                                                  *)

(* The tests and the I/O of the task, in the order of the code.  Where a   *)
(* test fails or I/O does, the task goes on to its report.                 *)
After == [queued |-> "begin", begin |-> "fetch", fetch |-> "fetched", fetched |-> "unblocked",
          unblocked |-> "open", open |-> "opened", opened |-> "write", write |-> "written",
          written |-> "last", last |-> "done"]
BlockTests == {"queued", "unblocked", "last"}
CancelTests == {"begin", "fetch", "fetched", "opened", "write", "written"}
FileOpen == {"opened", "write", "written", "last"}
Inputs == {"fetch", "open", "write"}

Passes(b) ==
    /\ job[b].pc \in DOMAIN After
    /\ job[b].pc \in CancelTests => ~job[b].cancel
    /\ job[b].pc \in BlockTests => SenderOf[b] \notin blocked

(* One test passed, or one piece of I/O done.                              *)
Advance(b) ==
    /\ Passes(b)
    /\ job' = [job EXCEPT ![b].pc = After[@]]
    /\ disk' = [disk EXCEPT ![job[b].path] = CASE job[b].pc = "open" -> "partial"
                                               [] job[b].pc = "write" -> "whole"
                                               [] OTHER -> @]
    /\ UNCHANGED <<events, lost>> /\ UNCHANGED native /\ UNCHANGED plugin

(* Mutation: PartialFile keeps its file.                                   *)
AbortKeeping(b) ==
    /\ job[b].pc \in DOMAIN After
    /\ Passes(b) => job[b].pc \in Inputs
    /\ job' = [job EXCEPT ![b].pc = "failed"]
    /\ UNCHANGED <<disk, events, lost>> /\ UNCHANGED native /\ UNCHANGED plugin

(* A test that fails, or I/O that does; PartialFile removes what is there. *)
Abort(b) ==
    /\ job[b].pc \in DOMAIN After
    /\ Passes(b) => job[b].pc \in Inputs
    /\ job' = [job EXCEPT ![b].pc = "failed"]
    /\ disk' = IF job[b].pc \in FileOpen THEN [disk EXCEPT ![job[b].path] = "absent"] ELSE disk
    /\ UNCHANGED <<events, lost>> /\ UNCHANGED native /\ UNCHANGED plugin

(* The terminal event; only then the permit and the registration go.       *)
Report(b) ==
    /\ job[b].pc \in {"done", "failed"}
    /\ Emit(Event(IF job[b].pc = "done" THEN "Done" ELSE "Failed", b))
    /\ job' = [job EXCEPT ![b].pc = "release"]
    /\ UNCHANGED disk /\ UNCHANGED native /\ UNCHANGED plugin

Release(b) ==
    /\ job[b].pc = "release"
    /\ job' = [job EXCEPT ![b].pc = "unregister"]
    /\ UNCHANGED <<disk, events, lost>> /\ UNCHANGED native /\ UNCHANGED plugin

(* FileJob::drop.                                                          *)
Unregister(b) ==
    /\ job[b].pc = "unregister"
    /\ job' = [job EXCEPT ![b] = NoJob]
    /\ UNCHANGED <<disk, events, lost>> /\ UNCHANGED native /\ UNCHANGED plugin

Permits == {b \in Blobs : job[b].pc \notin {"none", "unregister"}}

-----------------------------------------------------------------------------
(* The frame thread                                                        *)

AtWork == blocking.pc # "none"
Allowed(b) == SenderOf[b] \notin muted \cup blocked

(* DownloadFile: a place is taken and a destination named; paths of other  *)
(* transfers are noted for the clean-up.                                   *)
Download(b, d) ==
    /\ ~AtWork
    /\ Allowed(b) /\ CanBegin(offers, b)
    /\ d = 1 + Cardinality({e \in Paths : prep[e].pc # "none"})
    /\ offers' = BeginFetch(offers, b, d)
    /\ prep' = [prep EXCEPT ![d] = [NoPrep EXCEPT !.pc = "prepare", !.blob = b,
                                    !.kept = {offers'[c].path : c \in Busy(offers')}]]
    /\ UNCHANGED <<job, disk, events, lost, queued, muted>> /\ UNCHANGED native

(* Files that may be a day old: nobody writes them or has yet to hear of   *)
(* them.                                                                   *)
Settled(d) ==
    /\ disk[d] = "whole"
    /\ \A b \in Blobs : job[b].path = d => job[b].pc = "none"
    /\ \A i \in DOMAIN events : events[i].kind = "Done" => offers[events[i].blob].path # d

(* The worker: CleanupExpired deletes old files, PrepareDirectory may fail.*)
Prepare(d, gone, bad) ==
    /\ prep[d].pc = "prepare"
    /\ \A e \in gone : Settled(e) /\ e \notin prep[d].kept
    /\ disk' = [e \in Paths |-> IF e \in gone THEN "absent" ELSE disk[e]]
    /\ prep' = [prep EXCEPT ![d].pc = "ready", ![d].gone = gone, ![d].bad = bad]
    /\ UNCHANGED <<job, events, lost, offers, queued, muted>> /\ UNCHANGED native

(* Mutation: the limit on running jobs is one too high.                    *)
CanFetchMore(b) ==
    /\ b \in blobs /\ SenderOf[b] \notin blocked
    /\ Cardinality(Permits) <= Slots
    /\ job[b].pc = "none"

(* Mutation: the offer was read before the job is registered.              *)
CanFetchStale(b) ==
    /\ Cardinality(Permits) < Slots
    /\ job[b].pc = "none"

(* blob_fetch_bounded: offer, block list, permit and registration are      *)
(* looked at in one critical section.                                      *)
CanFetch(b) ==
    /\ b \in blobs /\ SenderOf[b] \notin blocked
    /\ Cardinality(Permits) < Slots
    /\ job[b].pc = "none"

(* Mutation: the handle is noted before the job is registered.             *)
PreparedAnyway(d, full) ==
    LET b == prep[d].blob
        current == Forget(offers, {c \in Blobs : offers[c].state = "Saved" /\ offers[c].path \in prep[d].gone})
        wanted == current[b].path = d /\ current[b].state = "Fetching" /\ Allowed(b)
        starts == wanted /\ ~prep[d].bad /\ CanFetch(b) /\ ~full
    IN  /\ ~AtWork /\ prep[d].pc = "ready"
        /\ prep' = [prep EXCEPT ![d] = [NoPrep EXCEPT !.pc = "over"]]
        /\ offers' = IF starts \/ current[b].path # d THEN current ELSE Complete(current, b, FALSE)
        /\ job' = IF starts THEN [job EXCEPT ![b] = [NoJob EXCEPT !.pc = "queued", !.path = d]] ELSE job
        /\ queued' = IF wanted /\ ~prep[d].bad THEN queued \cup {b} ELSE queued
        /\ UNCHANGED <<disk, events, lost, muted>> /\ UNCHANGED native

(* The callback on the frame thread: old files leave the list, and the job *)
(* is started, unless the transfer was canceled, retried or forgotten      *)
(* meanwhile, the preparation failed or the command queue is full.         *)
Prepared(d, full) ==
    LET b == prep[d].blob
        current == Forget(offers, {c \in Blobs : offers[c].state = "Saved" /\ offers[c].path \in prep[d].gone})
        wanted == current[b].path = d /\ current[b].state = "Fetching" /\ Allowed(b)
        starts == wanted /\ ~prep[d].bad /\ CanFetch(b) /\ ~full
    IN  /\ ~AtWork /\ prep[d].pc = "ready"
        /\ prep' = [prep EXCEPT ![d] = [NoPrep EXCEPT !.pc = "over"]]
        /\ offers' = IF starts \/ current[b].path # d THEN current ELSE Complete(current, b, FALSE)
        /\ job' = IF starts THEN [job EXCEPT ![b] = [NoJob EXCEPT !.pc = "queued", !.path = d]] ELSE job
        /\ queued' = IF starts THEN queued \cup {b} ELSE queued
        /\ UNCHANGED <<disk, events, lost, muted>> /\ UNCHANGED native

(* CancelFileDownload: a preparation ends at once, a job when it reports.  *)
(* A job that is gone has reported, and nothing changes.                   *)
CancelDownload(b) ==
    /\ ~AtWork /\ offers[b].state = "Fetching"
    /\ \/ /\ b \notin queued
          /\ offers' = Complete(CancelRequested(offers, b), b, FALSE)
          /\ UNCHANGED job
       \/ /\ b \in queued /\ job[b].pc # "none"
          /\ offers' = CancelRequested(offers, b)
          /\ job' = Signal(job, {b})
    /\ UNCHANGED <<disk, events, lost, queued, prep, muted>> /\ UNCHANGED native

(* ForgetFileOffers: running jobs are told and all the offers go.          *)
ForgetFileOffers(p) ==
    LET S == {b \in Blobs : SenderOf[b] = p}
    IN  offers' = Forget(offers, S) /\ job' = Signal(job, S \cap Busy(offers))

(* ToggleMute.                                                             *)
ToggleMute(p) ==
    /\ ~AtWork
    /\ \/ p \in muted /\ muted' = muted \ {p} /\ UNCHANGED <<offers, job>>
       \/ p \notin muted /\ muted' = muted \cup {p} /\ ForgetFileOffers(p)
    /\ UNCHANGED <<disk, events, lost, queued, prep>> /\ UNCHANGED native

(* One event of Poll, handled.  A result nobody waits for is taken for one *)
(* of a publication.                                                       *)
Poll ==
    /\ ~AtWork /\ events # <<>>
    /\ LET e == Head(events)
       IN  /\ offers' = CASE e.kind = "Offer" -> IF Allowed(e.blob) THEN Add(offers, e.blob) ELSE offers
                          [] e.kind = "Withdrawn" -> Withdraw(offers, e.blob)
                          [] e.kind \in {"Done", "Failed"} /\ e.blob \notin queued -> offers
                          [] OTHER -> Complete(offers, e.blob, e.kind = "Done")
           /\ queued' = IF e.kind \in {"Done", "Failed"} THEN queued \ {e.blob} ELSE queued
    /\ events' = Tail(events)
    /\ UNCHANGED <<job, disk, lost, prep, muted>> /\ UNCHANGED native

(* Block: Node::block lists the peer, takes its blobs away, announces and  *)
(* signals them, signals what jobs of the peer are left; the plugin then   *)
(* forgets the offers.  While an offer is being announced, the list is     *)
(* locked.                                                                 *)
BlockList(p) ==
    /\ ~AtWork /\ p \notin blocked
    /\ \A b \in announcing : SenderOf[b] # p
    /\ blocked' = blocked \cup {p}
    /\ blocking' = [pc |-> "blobs", peers |-> {p}, removed |-> {}]
    /\ UNCHANGED <<blobs, seen, announcing, job, withdrawing, disk, events, lost>> /\ UNCHANGED plugin

OfBlocked == {b \in Blobs : SenderOf[b] \in blocking.peers}

BlockBlobs ==
    /\ blocking.pc = "blobs"
    /\ blobs' = blobs \ OfBlocked
    /\ withdrawing' = withdrawing \cup (blobs \cap OfBlocked)
    /\ blocking' = [blocking EXCEPT !.pc = "jobs", !.removed = blobs \cap OfBlocked]
    /\ UNCHANGED <<seen, announcing, blocked, job, disk, events, lost>> /\ UNCHANGED plugin

BlockJobs ==
    /\ blocking.pc = "jobs" /\ blocking.removed \cap withdrawing = {}
    /\ job' = Signal(job, OfBlocked)
    /\ blocking' = [blocking EXCEPT !.pc = "offers"]
    /\ UNCHANGED <<blobs, seen, announcing, blocked, withdrawing, disk, events, lost>> /\ UNCHANGED plugin

BlockOffers ==
    /\ blocking.pc = "offers"
    /\ \E p \in blocking.peers : ForgetFileOffers(p)
    /\ blocking' = NotBlocking
    /\ UNCHANGED <<blobs, seen, announcing, blocked, withdrawing, disk, events, lost, queued, prep, muted>>

Unblock(p) ==
    /\ ~AtWork /\ p \in blocked
    /\ blocked' = blocked \ {p}
    /\ UNCHANGED <<blobs, seen, announcing, job, withdrawing, blocking, disk, events, lost>> /\ UNCHANGED plugin

-----------------------------------------------------------------------------
JobStep(b) == Advance(b) \/ Abort(b) \/ Report(b) \/ Release(b) \/ Unregister(b)
BlockStep == BlockBlobs \/ BlockJobs \/ BlockOffers

Next ==
    \/ \E b \in Blobs : OfferArrives(b) \/ Announce(b) \/ Unoffer(b) \/ Withdrawn(b)
    \/ \E b \in Blobs : JobStep(b)
    \/ \E b \in Blobs, d \in Paths : Download(b, d)
    \/ \E d \in Paths, gone \in SUBSET Paths, bad \in BOOLEAN : Prepare(d, gone, bad)
    \/ \E d \in Paths, full \in BOOLEAN : Prepared(d, full)
    \/ \E b \in Blobs : CancelDownload(b)
    \/ \E p \in Senders : ToggleMute(p) \/ BlockList(p) \/ Unblock(p)
    \/ BlockStep
    \/ Poll

Spec == Init /\ [][Next]_vars

-----------------------------------------------------------------------------
(* Properties                                                              *)

Count(b, S) == Cardinality({i \in DOMAIN events : events[i].blob = b /\ events[i].kind \in S})
Terminal == {"Done", "Failed"}

(* Types, and the two limits: never more jobs than permits, never more     *)
(* transfers in the list than ConcurrentFetches.                           *)
TypeOK ==
    /\ announcing \subseteq blobs /\ blobs \subseteq seen /\ seen \subseteq Blobs /\ withdrawing \subseteq seen \ blobs
    /\ blocked \subseteq Senders /\ muted \subseteq Senders /\ queued \subseteq Blobs
    /\ job \in [Blobs -> [pc : {"none", "failed", "done", "release", "unregister"} \cup DOMAIN After,
                          cancel : BOOLEAN, path : {NoPath} \cup Paths]]
    /\ disk \in [Paths -> {"absent", "partial", "whole"}]
    /\ Cardinality(Permits) <= Slots
    /\ Cardinality(Busy(offers)) <= Slots

(* A transfer the plugin has started has exactly one outcome on its way:   *)
(* its job has not reported, or the event is in the channel, or the full   *)
(* channel dropped it; and no outcome is on its way to nobody.             *)
OneOutcome ==
    \A b \in Blobs :
        Count(b, Terminal)
        + (IF job[b].pc \in DOMAIN After \cup {"done", "failed"} THEN 1 ELSE 0)
        + Cardinality({e \in lost : e.blob = b /\ e.kind \in Terminal})
        = IF b \in queued THEN 1 ELSE 0

(* A transfer holds its place in the list exactly as long as it is being   *)
(* prepared or its result is awaited: a canceled job's place is not given  *)
(* to another before the job ends.                                         *)
SlotKept ==
    \A b \in Listed(offers) :
        LET preparing == \E d \in Paths : prep[d].blob = b /\ prep[d].pc # "over" /\ offers[b].path = d
        IN  /\ b \in queued => b \in Busy(offers)
            /\ b \in Busy(offers) => (b \in queued) # preparing

(* A transfer the plugin has started ends once, and gives its place back   *)
(* then and not before.                                                    *)
TransfersEnd == OneOutcome /\ SlotKept

(* A partial file is one that a job is writing; an offer that failed or    *)
(* was canceled left no file; one that is saved has its file, or a         *)
(* clean-up deleted it whose callback is yet to come.                      *)
FilesKnown ==
    /\ \A d \in Paths : disk[d] = "partial" => \E b \in Blobs : job[b].path = d /\ job[b].pc \in FileOpen
    /\ \A b \in Listed(offers) :
          /\ offers[b].state \in {"Failed", "Canceled"} => disk[offers[b].path] = "absent"
          /\ offers[b].state = "Saved" => \/ disk[offers[b].path] = "whole"
                                         \/ \E d \in Paths : offers[b].path \in prep[d].gone

(* A job whose offer was withdrawn or whose sender was blocked is told to  *)
(* stop, or is about to be: blob_fetch_bounded and the withdrawal cannot   *)
(* miss each other.                                                        *)
ForgottenSignalled ==
    \A b \in Blobs : job[b].pc \in DOMAIN After /\ ~job[b].cancel =>
        /\ b \in blobs \cup withdrawing
        /\ SenderOf[b] \in blocked => SenderOf[b] \in blocking.peers

(* An offer the list shows can be fetched, or its withdrawal is on its way *)
(* or was dropped by the full channel: a withdrawal never overtakes the    *)
(* offer it is about.                                                      *)
ListedKnown ==
    \A b \in Listed(offers) : ~offers[b].withdrawn =>
        b \in blobs \cup withdrawing \/ Count(b, {"Withdrawn"}) > 0 \/ Event("Withdrawn", b) \in lost

(* What the list of offers says is so, of the disk and of the node: the    *)
(* two hear of each other through events only.                             *)
OffersTrue == FilesKnown /\ ListedKnown
=============================================================================
