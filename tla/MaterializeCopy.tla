---------------------------- MODULE MaterializeCopy ----------------------------
(***************************************************************************)
(* MaterializeService.execute: copy the approved files of a plan into a    *)
(* destination directory, all or nothing, without overwriting anything,    *)
(* while the user goes on working on the sources and in the destination.   *)
(*                                                                         *)
(* Directories have an identity (device and inode): the destination path   *)
(* names one of them, or none, and can come to name another.  Whether a    *)
(* path is a link or not a directory is one more kind of `none' that the   *)
(* code refuses.  A file's content is only what the properties tell apart. *)
(***************************************************************************)
EXTENDS Integers, Sequences, FiniteSets

CONSTANTS
    N,        \* number of items in the plan
    Dir,      \* identities a directory can have
    NoDir,    \* the path names no directory
    MaxMoves  \* bound: what the user does meanwhile

ASSUME SizeAssumption == N \in Nat \ {0} /\ NoDir \notin Dir
ASSUME MovesAssumption == MaxMoves \in Nat

VARIABLES
    source,    \* what each source is, compared with what was approved
    entry,     \* what each destination name of each directory holds
    named,     \* the directory the destination path names
    hardlinks, \* the destination's filesystem supports hard links
    pc,        \* where the copying thread is
    item,      \* the plan item it works on
    created,   \* the items published so far, in order
    createdDirectory,
    identity,  \* the directory found at the start
    temp,      \* the temporary file: its directory and its content
    outcome,   \* how execute() ended
    touched,   \* history: destination names the user has changed
    swapped,   \* history: the path has come to name another directory
    moves      \* how many things the user has done so far

disk == <<source, entry, named, hardlinks>>
thread == <<pc, item, created, createdDirectory, identity, temp, outcome>>
user == <<touched, swapped, moves>>
vars == <<disk, thread, user>>

Item == 1 .. N

\* "copy" and "wrong" were published by this operation, with the approved or
\* with another content; "partial" is a target still being streamed.
Entry == {"none", "user", "copy", "wrong", "partial"}
Ours == {"copy", "wrong", "partial"}

PC == {"plan", "mkdir", "space", "item", "target", "destination", "temporary", "copying",
       "verify", "publish", "stream", "unlink", "rollback", "rmdir", "end", "dead"}

Outcome == {"none", "copied", "raised", "rollback_incomplete"}

NoTemp == [dir |-> NoDir, content |-> "none"]

TypeOK ==
    /\ source \in [Item -> {"approved", "changed"}]
    /\ entry \in [Dir -> [Item -> Entry]]
    /\ named \in Dir \cup {NoDir}
    /\ hardlinks \in BOOLEAN
    /\ pc \in PC
    /\ item \in 1 .. N + 1
    /\ created \in Seq(Item)
    /\ createdDirectory \in BOOLEAN
    /\ identity \in Dir \cup {NoDir}
    /\ temp \in [dir : Dir \cup {NoDir}, content : {"none", "empty", "copy", "wrong"}]
    /\ outcome \in Outcome
    /\ touched \subseteq Item
    /\ swapped \in BOOLEAN
    /\ moves \in 0 .. MaxMoves

Init ==
    /\ source \in [Item -> {"approved", "changed"}]
    /\ entry = [d \in Dir |-> [i \in Item |-> "none"]]
    /\ named \in Dir \cup {NoDir}
    /\ hardlinks \in BOOLEAN
    /\ pc = "plan"
    /\ item = 1
    /\ created = <<>>
    /\ createdDirectory = FALSE
    /\ identity = NoDir
    /\ temp = NoTemp
    /\ outcome = "none"
    /\ touched = {}
    /\ swapped = FALSE
    /\ moves = 0

-----------------------------------------------------------------------------
(* The copying thread. *)

Goto(p) == pc' = p

SetEntry(d, i, e) == entry' = [entry EXCEPT ![d][i] = e]

\* An exception inside the try block: the rollback starts at the last target.
Raise == Goto("rollback") /\ outcome' = "raised"

\* The plan is taken, the grant consumed, the destination looked at.
Begin ==
    /\ pc = "plan"
    /\ createdDirectory' = (named = NoDir)
    /\ Goto("mkdir")
    /\ UNCHANGED <<disk, item, created, identity, temp, outcome, user>>

\* mkdir(exist_ok=True).  A new directory is empty, perhaps with an inode
\* that was in use before.  No file has been written yet: an error here and in
\* the next step is raised outside the try block, without a rollback.
MakeDirectory ==
    /\ pc = "mkdir"
    /\ \/ named # NoDir /\ Goto("space") /\ UNCHANGED <<named, outcome>>
       \/ /\ named = NoDir
          /\ \E d \in Dir : /\ \A i \in Item : entry[d][i] = "none"
                            /\ named' = d
          /\ Goto("space")
          /\ UNCHANGED outcome
       \/ Goto("end") /\ outcome' = "raised" /\ UNCHANGED named
    /\ UNCHANGED <<source, entry, hardlinks, item, created, createdDirectory, identity,
                   temp, user>>

IsEmpty(d) == \A i \in Item : entry[d][i] = "none"

\* The directory's identity is recorded and the free space compared with the
\* plan; if it does not suffice a directory made for the copy is removed.
SpaceCheck ==
    /\ pc = "space"
    /\ \/ /\ named # NoDir
          /\ identity' = named
          /\ Goto("item")
          /\ UNCHANGED <<named, outcome>>
       \/ /\ named # NoDir /\ createdDirectory /\ IsEmpty(named)
          /\ named' = NoDir
          /\ Goto("end")
          /\ outcome' = "raised"
          /\ UNCHANGED identity
       \/ /\ Goto("end")
          /\ outcome' = "raised"
          /\ UNCHANGED <<named, identity>>
    /\ UNCHANGED <<source, entry, hardlinks, item, created, createdDirectory, temp, user>>

\* A deadline or cancel request is noticed, or the source is compared with
\* what was approved: link, size, times, identity and digest.
CheckSource ==
    /\ pc = "item"
    /\ \/ item > N /\ Goto("end") /\ outcome' = "copied"
       \/ item <= N /\ source[item] = "approved" /\ Goto("target") /\ UNCHANGED outcome
       \/ item <= N /\ Raise
    /\ UNCHANGED <<disk, item, created, createdDirectory, identity, temp, user>>

\* target.exists()
CheckTarget ==
    /\ pc = "target"
    /\ IF named # NoDir /\ entry[named][item] # "none"
       THEN Raise
       ELSE Goto("destination") /\ UNCHANGED outcome
    /\ UNCHANGED <<disk, item, created, createdDirectory, identity, temp, user>>

CheckDestination ==
    /\ pc = "destination"
    /\ IF named = NoDir \/ named # identity
       THEN Raise
       ELSE Goto("temporary") /\ UNCHANGED outcome
    /\ UNCHANGED <<disk, item, created, createdDirectory, identity, temp, user>>

\* mkstemp() in the directory the path names now.
MakeTemporary ==
    /\ pc = "temporary"
    /\ IF named = NoDir
       THEN Raise /\ UNCHANGED temp
       ELSE /\ temp' = [dir |-> named, content |-> "empty"]
            /\ Goto("copying")
            /\ UNCHANGED outcome
    /\ UNCHANGED <<disk, item, created, createdDirectory, identity, user>>

\* The inner try block: whatever happens, the temporary file is unlinked.
RaiseWithTemporary == Goto("unlink") /\ outcome' = "raised"

\* The temporary path still leads to the temporary file.
TemporaryThere == temp.dir # NoDir /\ named = temp.dir

\* Mutant of CopyContent: the temporary file is described by its source.
CopyContentOfSource ==
    /\ pc = "copying"
    /\ \/ /\ TemporaryThere
          /\ temp' = [temp EXCEPT !.content = source[item]]
          /\ Goto("verify")
          /\ UNCHANGED outcome
       \/ RaiseWithTemporary /\ UNCHANGED temp
    /\ UNCHANGED <<disk, item, created, createdDirectory, identity, user>>

\* The source may change while it is read.
CopyContent ==
    /\ pc = "copying"
    /\ \/ /\ TemporaryThere
          /\ temp' = [temp EXCEPT !.content = IF source[item] = "approved" THEN "copy" ELSE "wrong"]
          /\ Goto("verify")
          /\ UNCHANGED outcome
       \/ RaiseWithTemporary /\ UNCHANGED temp
    /\ UNCHANGED <<disk, item, created, createdDirectory, identity, user>>

\* Mutant of VerifyCopy: the copy's digest is not compared.
VerifyNothing ==
    /\ pc = "verify"
    /\ \/ TemporaryThere /\ Goto("publish") /\ UNCHANGED outcome
       \/ RaiseWithTemporary
    /\ UNCHANGED <<disk, item, created, createdDirectory, identity, temp, user>>

\* The digest of the copy must be the approved one.
VerifyCopy ==
    /\ pc = "verify"
    /\ \/ TemporaryThere /\ temp.content = "copy" /\ Goto("publish") /\ UNCHANGED outcome
       \/ RaiseWithTemporary
    /\ UNCHANGED <<disk, item, created, createdDirectory, identity, temp, user>>

\* Mutant of Publish: a rename, which replaces a file of the same name.
PublishByRename ==
    /\ pc = "publish"
    /\ \/ /\ TemporaryThere
          /\ SetEntry(named, item, temp.content)
          /\ created' = Append(created, item)
          /\ Goto("unlink")
          /\ UNCHANGED outcome
       \/ /\ RaiseWithTemporary
          /\ UNCHANGED <<entry, created>>
    /\ UNCHANGED <<source, named, hardlinks, item, createdDirectory, identity, temp, user>>

\* _publish_no_clobber: an atomic hard link, or O_CREAT | O_EXCL and a stream;
\* both refuse a name that is taken.
Publish ==
    /\ pc = "publish"
    /\ \/ /\ hardlinks /\ TemporaryThere
          /\ entry[named][item] = "none"
          /\ SetEntry(named, item, temp.content)
          /\ created' = Append(created, item)
          /\ Goto("unlink")
          /\ UNCHANGED outcome
       \/ /\ ~hardlinks /\ TemporaryThere
          /\ entry[named][item] = "none"
          /\ SetEntry(named, item, "partial")
          /\ created' = Append(created, item)
          /\ Goto("stream")
          /\ UNCHANGED outcome
       \/ /\ RaiseWithTemporary
          /\ UNCHANGED <<entry, created>>
    /\ UNCHANGED <<source, named, hardlinks, item, createdDirectory, identity, temp, user>>

\* The descriptor writes to the file it opened, wherever that file now is.
Stream ==
    /\ pc = "stream"
    /\ \/ /\ entry' = [d \in Dir |-> [entry[d] EXCEPT ![item] =
                          IF @ = "partial" THEN temp.content ELSE @]]
          /\ Goto("unlink")
          /\ UNCHANGED outcome
       \/ RaiseWithTemporary /\ UNCHANGED entry
    /\ UNCHANGED <<source, named, hardlinks, item, created, createdDirectory, identity,
                   temp, user>>

\* Mutant of UnlinkTemporary: it is not in the finally clause.
UnlinkOnSuccess ==
    /\ pc = "unlink"
    /\ IF outcome = "raised"
       THEN Goto("rollback") /\ UNCHANGED <<temp, item>>
       ELSE /\ temp' = IF named = temp.dir THEN NoTemp ELSE temp
            /\ Goto("item") /\ item' = item + 1
    /\ UNCHANGED <<disk, created, createdDirectory, identity, outcome, user>>

\* finally: temporary.unlink(missing_ok=True), by path; it is not made to fail.
UnlinkTemporary ==
    /\ pc = "unlink"
    /\ temp' = IF named = temp.dir THEN NoTemp ELSE temp
    /\ IF outcome = "raised"
       THEN Goto("rollback") /\ UNCHANGED item
       ELSE Goto("item") /\ item' = item + 1
    /\ UNCHANGED <<disk, created, createdDirectory, identity, outcome, user>>

\* The rollback, one target at a time: path.unlink(missing_ok=True) removes
\* what the path names now; an OSError makes the rollback incomplete.
Rollback ==
    /\ pc = "rollback"
    /\ IF created = <<>>
       THEN /\ Goto("rmdir")
            /\ UNCHANGED <<entry, created, outcome>>
       ELSE /\ created' = SubSeq(created, 1, Len(created) - 1)
            /\ UNCHANGED pc
            /\ \/ /\ IF named = NoDir
                     THEN UNCHANGED entry
                     ELSE SetEntry(named, created[Len(created)], "none")
                  /\ UNCHANGED outcome
               \/ /\ outcome' = "rollback_incomplete"
                  /\ UNCHANGED entry
    /\ UNCHANGED <<source, named, hardlinks, item, createdDirectory, identity, temp, user>>

\* destination.rmdir(), if execute() found no directory there.
RemoveDirectory ==
    /\ pc = "rmdir"
    /\ Goto("end")
    /\ \/ /\ ~createdDirectory
          /\ UNCHANGED <<named, outcome>>
       \/ /\ createdDirectory /\ named # NoDir
          /\ IsEmpty(named) /\ temp.dir # named
          /\ named' = NoDir
          /\ UNCHANGED outcome
       \/ /\ createdDirectory
          /\ outcome' = "rollback_incomplete"
          /\ UNCHANGED named
    /\ UNCHANGED <<source, entry, hardlinks, item, created, createdDirectory, identity,
                   temp, user>>

Crash ==
    /\ pc \notin {"end", "dead"}
    /\ Goto("dead")
    /\ UNCHANGED <<disk, item, created, createdDirectory, identity, temp, outcome, user>>

-----------------------------------------------------------------------------
(* The user, meanwhile. *)

Move == moves < MaxMoves /\ moves' = moves + 1

ChangeSource(i) ==
    /\ Move
    /\ source' = [source EXCEPT ![i] = "changed"]
    /\ UNCHANGED <<entry, named, hardlinks, thread, touched, swapped>>

\* A file appears, is replaced or is deleted under a destination name.
ChangeEntry(i) ==
    /\ Move
    /\ named # NoDir
    /\ \E e \in {"none", "user"} : SetEntry(named, i, e)
    /\ touched' = touched \cup {i}
    /\ UNCHANGED <<source, named, hardlinks, thread, swapped>>

\* The directory is moved away, and perhaps another one put in its place.
ChangeDirectory ==
    /\ Move
    /\ named' \in (Dir \cup {NoDir}) \ {named}
    /\ swapped' = TRUE
    /\ UNCHANGED <<source, entry, hardlinks, thread, touched>>

ThreadStep ==
    \/ Begin \/ MakeDirectory \/ SpaceCheck \/ CheckSource \/ CheckTarget
    \/ CheckDestination \/ MakeTemporary \/ CopyContent \/ VerifyCopy \/ Publish
    \/ Stream \/ UnlinkTemporary \/ Rollback \/ RemoveDirectory

UserStep ==
    \/ \E i \in Item : ChangeSource(i) \/ ChangeEntry(i)
    \/ ChangeDirectory

Next == ThreadStep \/ UserStep \/ Crash

Spec == Init /\ [][Next]_vars

-----------------------------------------------------------------------------
(* Properties. *)

\* Whatever happens to the sources while they are read, no file with another
\* content than the approved one ever gets a destination name, and no partial
\* one is left by an operation that reports success.
ApprovedContentOnly ==
    \A d \in Dir, i \in Item :
        /\ entry[d][i] # "wrong"
        /\ entry[d][i] = "partial" => ~hardlinks /\ outcome # "copied"

\* All or nothing, as long as the destination path keeps naming the directory
\* it named: after success every name the user left alone holds the copy,
\* after a reported failure with a complete rollback no file of this
\* operation is left, not even a temporary one.
AllOrNothing ==
    pc = "end" /\ ~swapped =>
        /\ outcome = "copied" => \A i \in Item \ touched : entry[named][i] = "copy"
        /\ outcome = "raised" =>
               temp = NoTemp /\ \A d \in Dir, i \in Item : entry[d][i] \notin Ours

\* Going forward, the copy never replaces or removes a file of the user's,
\* even one that appears between the check of the name and the publication.
NoClobber ==
    [][\A d \in Dir, i \in Item :
           entry[d][i] = "user" /\ entry'[d][i] # "user" =>
               moves' # moves \/ pc = "rollback"]_vars

=============================================================================
