--------------------------------- MODULE Dcc ---------------------------------
(***************************************************************************)
(* Receiving files over DCC (conn/actor.rs and dcc/transfer.rs): offers,   *)
(* the agreement to carry on from a partial file, the download itself, and *)
(* what it leaves on disk, through cancellations, lost connections and     *)
(* crashes of the receiving program.  The sender is the same program at    *)
(* the other end: it serves each offer once, to whoever dials it.          *)
(*                                                                         *)
(* All offers are of one file name.  A sender's file is a sequence of      *)
(* chunks tagged with the sender; a file on disk is an inode, so that a    *)
(* task goes on writing to the inode it opened whatever its name becomes.  *)
(***************************************************************************)
EXTENDS Integers, Sequences, FiniteSets, SequencesExt

CONSTANTS
    Senders,       \* people who offer a file of this name
    Offers,        \* offer ids
    Size,          \* chunks in each file
    MaxRunning,    \* downloads under way at a time
    Late,          \* answers may come after RESUME_REPLY_TIMEOUT
    CrashStages    \* stages in which the program may be killed

ASSUME DccAssumption ==
    Size \in Nat \ {0} /\ MaxRunning \in Nat /\ Late \in BOOLEAN

NoFile == 0
NoOne == "nobody"
Hole == <<NoOne, 0>>

ASSUME OffersAssumption == Offers \subseteq Nat \ {NoFile}

VARIABLES
    stage,       \* of each download: the step of accept_file and accept it is at
    from,        \* who made the offer
    wanted,      \* the position asked for in DCC RESUME
    start,       \* start_at
    received,    \* receive_into's received
    ino,         \* the inode the download writes to
    cancel,      \* the cancel channel holds a message
    net,         \* DCC RESUME and ACCEPT on their way, by offer
    offset,      \* the sender's Serving.offset
    sending,     \* send_from's position; -1 before the rendezvous, Size + 1 once closed
    content,     \* what each inode holds
    partial,     \* the inode named <name>.part
    final,       \* the inode named <name>
    record       \* whom <name>.part.from names

disk == <<content, partial, final, record>>
sender == <<offset, sending>>
task == <<wanted, start, received, ino>>
vars == <<stage, from, cancel, net, task, sender, disk>>

\* A download is running from the moment it is accepted until it ends.
Live == {"asking", "checking", "dialling", "recording", "opening", "receiving", "renaming"}
Running == {o \in Offers : stage[o] \in Live}

File(s) == [k \in 1..Size |-> <<s, k>>]

Init ==
    /\ stage = [o \in Offers |-> "none"]
    /\ from \in [Offers -> Senders]
    /\ cancel = [o \in Offers |-> FALSE]
    /\ net = [o \in Offers |-> "none"]
    /\ wanted = [o \in Offers |-> 0] /\ start = [o \in Offers |-> 0]
    /\ received = [o \in Offers |-> 0] /\ ino = [o \in Offers |-> NoFile]
    /\ offset = [o \in Offers |-> 0] /\ sending = [o \in Offers |-> -1]
    /\ content = [o \in Offers |-> <<>>]
    /\ partial = NoFile /\ final = NoFile /\ record = NoOne

To(o, s) == stage' = [stage EXCEPT ![o] = s]

\* partial_len and resumable_len, zero for none
PartialLen == IF partial = NoFile THEN 0 ELSE Len(content[partial])
ResumableLen(s) == IF record = s THEN PartialLen ELSE 0

-----------------------------------------------------------------------------
(* The actor: offers, answers, cancellation.                               *)

\* The sender's send_file and our on_ctcp.
Offer(o) ==
    /\ stage[o] = "none" /\ \A p \in Offers : p < o => stage[p] # "none"
    /\ To(o, "offered")
    /\ UNCHANGED <<from, cancel, net, task, sender, disk>>

\* Mutant of AcceptFile: a partial file as large as the whole is asked about too.
AcceptFileWhole(o) ==
    /\ stage[o] = "offered"
    /\ Cardinality(Running) < MaxRunning
    /\ LET have == ResumableLen(from[o]) IN
       IF have > 0
       THEN /\ To(o, "asking")
            /\ wanted' = [wanted EXCEPT ![o] = have]
            /\ net' = [net EXCEPT ![o] = "RESUME"]
       ELSE /\ To(o, "checking")
            /\ UNCHANGED <<wanted, net>>
    /\ UNCHANGED <<from, cancel, start, received, ino, sender, disk>>

\* accept_file and ask_to_resume
AcceptFile(o) ==
    /\ stage[o] = "offered"
    /\ Cardinality(Running) < MaxRunning
    /\ LET have == ResumableLen(from[o]) IN
       IF have > 0 /\ have < Size
       THEN /\ To(o, "asking")
            /\ wanted' = [wanted EXCEPT ![o] = have]
            /\ net' = [net EXCEPT ![o] = "RESUME"]
       ELSE /\ To(o, "checking")
            /\ UNCHANGED <<wanted, net>>
    /\ UNCHANGED <<from, cancel, start, received, ino, sender, disk>>

\* The sender's on_resume_request: forget_finished keeps the entry until the
\* serving task ends, so a request that comes after the rendezvous is answered too.
ResumeRequest(o) ==
    /\ net[o] = "RESUME"
    /\ IF sending[o] <= Size /\ wanted[o] \in 1..Size - 1
       THEN /\ offset' = [offset EXCEPT ![o] = wanted[o]]
            /\ net' = [net EXCEPT ![o] = "ACCEPT"]
       ELSE /\ net' = [net EXCEPT ![o] = "none"]
            /\ UNCHANGED offset
    /\ UNCHANGED <<stage, from, cancel, task, sending, disk>>

\* Flood protection at the other end drops the request, or it is no client of ours.
ResumeIgnored(o) ==
    /\ net[o] = "RESUME"
    /\ net' = [net EXCEPT ![o] = "none"]
    /\ UNCHANGED <<stage, from, cancel, task, sender, disk>>

\* on_resume_accepted, for a download that still waits and for one that has gone on.
ResumeAccepted(o) ==
    /\ net[o] = "ACCEPT"
    /\ net' = [net EXCEPT ![o] = "none"]
    /\ IF stage[o] = "asking" /\ ~cancel[o]
       THEN To(o, "checking") /\ start' = [start EXCEPT ![o] = wanted[o]]
       ELSE UNCHANGED <<stage, start>>
    /\ UNCHANGED <<from, cancel, wanted, received, ino, sender, disk>>

\* RESUME_REPLY_TIMEOUT
ResumeTimeout(o) ==
    /\ stage[o] = "asking" /\ ~cancel[o]
    /\ net[o] = "none" \/ Late
    /\ To(o, "checking")
    /\ UNCHANGED <<from, cancel, net, task, sender, disk>>

\* cancel_transfer: an offer is forgotten, a running download told to stop.
CancelTransfer(o) ==
    /\ stage[o] \in {"offered"} \cup Live /\ ~cancel[o]
    /\ cancel' = [cancel EXCEPT ![o] = stage[o] \in Live]
    /\ IF stage[o] = "offered" THEN To(o, "declined") ELSE UNCHANGED stage
    /\ UNCHANGED <<from, net, task, sender, disk>>

-----------------------------------------------------------------------------
(* The download task.                                                      *)

\* Cancelled while the answer was awaited: nothing on disk is looked at.
CancelledAsking(o) ==
    /\ stage[o] = "asking" /\ cancel[o]
    /\ To(o, "cancelled")
    /\ UNCHANGED <<from, cancel, net, task, sender, disk>>

\* Mutant of Check: a name already taken is not noticed.
CheckBlind(o) ==
    /\ stage[o] = "checking"
    /\ To(o, "dialling")
    /\ start' = [start EXCEPT ![o] =
                    IF @ > 0 /\ @ < Size /\ @ <= ResumableLen(from[o]) THEN @ ELSE 0]
    /\ UNCHANGED <<from, cancel, net, wanted, received, ino, sender, disk>>

\* accept, before it dials
Check(o) ==
    /\ stage[o] = "checking"
    /\ IF final # NoFile
       THEN To(o, "failed") /\ UNCHANGED start
       ELSE /\ To(o, "dialling")
            /\ start' = [start EXCEPT ![o] =
                            IF @ > 0 /\ @ < Size /\ @ <= ResumableLen(from[o]) THEN @ ELSE 0]
    /\ UNCHANGED <<from, cancel, net, wanted, received, ino, sender, disk>>

\* dial, and the sender's serve, which reads the offset once somebody has come.
Connect(o) ==
    /\ stage[o] = "dialling" /\ sending[o] = -1
    /\ To(o, "recording")
    /\ sending' = [sending EXCEPT ![o] = IF offset[o] < Size THEN offset[o] ELSE 0]
    /\ UNCHANGED <<from, cancel, net, task, offset, disk>>

\* RENDEZVOUS_TIMEOUT, or a refused connection
DialFails(o) ==
    /\ stage[o] = "dialling"
    /\ To(o, "failed")
    /\ UNCHANGED <<from, cancel, net, task, sender, disk>>

\* Mutant of WriteOrigin: the record of an earlier attempt is left alone.
WriteOriginOnce(o) ==
    /\ stage[o] = "recording"
    /\ To(o, "opening")
    /\ record' = IF record = NoOne THEN from[o] ELSE record
    /\ UNCHANGED <<from, cancel, net, task, sender, content, partial, final>>

\* write_origin
WriteOrigin(o) ==
    /\ stage[o] = "recording"
    /\ To(o, "opening")
    /\ record' = from[o]
    /\ UNCHANGED <<from, cancel, net, task, sender, content, partial, final>>

\* Err in accept: kept when it can be carried on, removed otherwise.
Discard(keep) ==
    /\ UNCHANGED <<content, final>>
    /\ IF keep /\ PartialLen > 0
       THEN UNCHANGED <<partial, record>>
       ELSE partial' = NoFile /\ record' = NoOne

\* File::set_len, which cuts a file or extends it with zeros.
SetLen(f, n) == [k \in 1..n |-> IF k <= Len(f) THEN f[k] ELSE Hole]

\* receive_into, up to its loop: cut to the agreed point, or created afresh.  A
\* partial file that has gone since its length was looked at is an error.
Open(o) ==
    /\ stage[o] = "opening"
    /\ IF partial = NoFile /\ start[o] > 0
       THEN To(o, "failed") /\ Discard(TRUE) /\ UNCHANGED <<received, ino>>
       ELSE LET f == IF partial = NoFile THEN o ELSE partial IN
            /\ To(o, "receiving")
            /\ partial' = f
            /\ ino' = [ino EXCEPT ![o] = f]
            /\ content' = [content EXCEPT ![f] = SetLen(@, start[o])]
            /\ received' = [received EXCEPT ![o] = start[o]]
            /\ UNCHANGED <<final, record>>
    /\ UNCHANGED <<from, cancel, net, wanted, start, sender>>

\* Writing chunk c at position p, past the end leaving a hole.
Written(f, p, c) ==
    [SetLen(f, IF Len(f) < p THEN p ELSE Len(f)) EXCEPT ![p] = c]

\* One read of the loop: the next chunk, as long as nobody has cancelled.
Receive(o) ==
    /\ stage[o] = "receiving" /\ ~cancel[o] /\ sending[o] < Size
    /\ content' = [content EXCEPT ![ino[o]] =
                      Written(@, received[o] + 1, <<from[o], sending[o] + 1>>)]
    /\ received' = [received EXCEPT ![o] = @ + 1]
    /\ sending' = [sending EXCEPT ![o] = @ + 1]
    /\ IF received[o] + 1 >= Size THEN To(o, "renaming") ELSE UNCHANGED stage
    /\ UNCHANGED <<from, cancel, net, wanted, start, ino, offset, partial, final, record>>

\* The sender has sent everything, nobody came in time, or the connection is lost.
SenderCloses(o) ==
    /\ stage[o] # "none" /\ sending[o] <= Size
    /\ sending' = [sending EXCEPT ![o] = Size + 1]
    /\ UNCHANGED <<stage, from, cancel, net, task, offset, disk>>

\* Mutant of EndOfStream: the bytes are not counted once the stream has ended.
EndOfStreamUncounted(o) ==
    /\ stage[o] = "receiving" /\ ~cancel[o] /\ sending[o] > Size
    /\ To(o, "renaming")
    /\ UNCHANGED <<from, cancel, net, task, sender, disk>>

\* The stream ends short of the size: Truncated.
EndOfStream(o) ==
    /\ stage[o] = "receiving" /\ ~cancel[o] /\ sending[o] > Size
    /\ To(o, "failed")
    /\ Discard(TRUE)
    /\ UNCHANGED <<from, cancel, net, task, sender>>

\* Mutant of Cancelled: the cancel channel is looked at once a read returns.
CancelledUnheard(o) ==
    /\ stage[o] = "receiving" /\ cancel[o] /\ sending[o] > Size
    /\ To(o, "cancelled")
    /\ Discard(FALSE)
    /\ UNCHANGED <<from, cancel, net, task, sender>>

\* The biased select of receive_into.
Cancelled(o) ==
    /\ stage[o] = "receiving" /\ cancel[o]
    /\ To(o, "cancelled")
    /\ Discard(FALSE)
    /\ UNCHANGED <<from, cancel, net, task, sender>>

\* The last step of accept: the file is whole and takes its name.
Rename(o) ==
    /\ stage[o] = "renaming"
    /\ IF partial # NoFile
       THEN To(o, "done") /\ final' = partial /\ partial' = NoFile /\ record' = NoOne
       ELSE To(o, "failed") /\ UNCHANGED <<partial, final, record>>
    /\ UNCHANGED <<from, cancel, net, task, sender, content>>

-----------------------------------------------------------------------------
\* The program is killed: the disk stays, offers and downloads do not.
Crash ==
    /\ Running # {}
    /\ \A o \in Running : stage[o] \in CrashStages
    /\ stage' = [o \in Offers |-> IF stage[o] \in Live \cup {"offered"} THEN "failed" ELSE stage[o]]
    /\ net' = [o \in Offers |-> "none"]
    /\ sending' = [o \in Offers |-> IF o \in Running /\ sending[o] >= 0 THEN Size + 1 ELSE sending[o]]
    /\ UNCHANGED <<from, cancel, task, offset, disk>>

Task(o) ==
    \/ CancelledAsking(o) \/ Check(o) \/ Connect(o) \/ DialFails(o) \/ WriteOrigin(o) \/ Open(o)
    \/ EndOfStream(o) \/ Cancelled(o) \/ Rename(o)

Actor(o) ==
    \/ Offer(o) \/ AcceptFile(o) \/ ResumeRequest(o) \/ ResumeIgnored(o) \/ ResumeAccepted(o)
    \/ ResumeTimeout(o) \/ CancelTransfer(o)

Stream(o) == Receive(o) \/ SenderCloses(o)

Next == Crash \/ \E o \in Offers : Task(o) \/ Actor(o) \/ Stream(o)

\* Tasks are polled, and the two timeouts strike; the sender owes nothing.
Fairness == \A o \in Offers : WF_vars(Task(o)) /\ WF_vars(ResumeTimeout(o) \/ ResumeAccepted(o))

Spec == Init /\ [][Next]_vars /\ Fairness

-----------------------------------------------------------------------------
Stages == Live \cup {"none", "offered", "declined", "cancelled", "failed", "done"}

TypeOK ==
    /\ stage \in [Offers -> Stages] /\ from \in [Offers -> Senders] /\ cancel \in [Offers -> BOOLEAN]
    /\ net \in [Offers -> {"none", "RESUME", "ACCEPT"}]
    /\ wanted \in [Offers -> 0..Size - 1] /\ start \in [Offers -> 0..Size - 1]
    /\ received \in [Offers -> 0..Size] /\ offset \in [Offers -> 0..Size - 1]
    /\ sending \in [Offers -> -1..Size + 1] /\ ino \in [Offers -> Offers \cup {NoFile}]
    /\ \A o \in Offers : Len(content[o]) <= Size
    /\ partial \in Offers \cup {NoFile} /\ final \in Offers \cup {NoFile}
    /\ record \in Senders \cup {NoOne}

(* What carries the file's name is the file that was offered, whole and from    *)
(* one sender, however many attempts, cancellations and crashes went into it    *)
(* ("renamed once it is whole, so a transfer that fails halfway cannot be       *)
(* mistaken for the file it was going to be", accept).                          *)
FinishedIsWhole == final # NoFile => \E s \in Senders : content[final] = File(s)

(* A partial file at rest is the beginning of what its record says it is, so    *)
(* that carrying on from it is right ("a partial is carried on only for the     *)
(* person who started it", origin_text).                                        *)
PartialIsRecorded ==
    partial # NoFile /\ record # NoOne /\ Running = {} => IsPrefix(content[partial], File(record))

(* A finished file is never replaced: "a name already taken is an error, never  *)
(* a silent replacement of something the user already had" (accept).            *)
NothingOverwritten == [][final # NoFile => final' = final]_vars

(* Cancelling ends a download whatever it is doing: waiting for an answer,      *)
(* dialling, or reading from a sender that has gone quiet.                      *)
CancelEnds == \A o \in Offers : cancel[o] ~> stage[o] \notin Live

(* A cancelled download leaves nothing behind: "stopping a download is a        *)
(* decision to be rid of it, and an unfinished copy of something the user       *)
(* turned away has no business staying" (accept).                               *)
CancelledLeavesNothing ==
    [][\A o \in Offers : stage[o] # "cancelled" /\ stage'[o] = "cancelled" => partial' = NoFile]_vars
=============================================================================
