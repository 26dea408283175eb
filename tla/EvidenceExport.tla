---------------------------- MODULE EvidenceExport ----------------------------
(***************************************************************************)
(* Exports of the evidence of events, several at a time in one dashboard.  *)
(*                                                                         *)
(*   biz/dashboard/service/event.go   GetEventsExportEvidence              *)
(*   biz/export/cmd/event.go          ProcessEvents, doEvent, processImage *)
(*   util/dashboard.go                Zip                                  *)
(*                                                                         *)
(* An export writes a directory for each event into one that is named by   *)
(* the second it began in, packs that into its answer and removes it. The  *)
(* limiter lets two exports through at once (rate.NewLimiter(0.05, 2)), so *)
(* two of them can share the directory. The names of the directories of    *)
(* events hold the time in nanoseconds and are taken to differ.            *)
(***************************************************************************)
EXTENDS Naturals

CONSTANTS Exports, Events, LastSecond

VARIABLES
  now,     \* in seconds
  made,    \* the seconds with a directory of that name
  disk,    \* what is in it: for an export and an event its directory and files
  exp,     \* what each export does
  crashed  \* the dashboard has ended in between

vars == <<now, made, disk, exp, crashed>>

Seconds == 0..LastSecond
None == LastSecond + 1
Images == {"first", "second"}
Files == {"dir", "ini"} \cup Images
Entries == Exports \X Events \X Files

\* What is left of an event: its directory, one image after the other, the description.
\* It ends complete, bare of a description that could not be written, or with nothing.
Jobs == {"todo", "ini", "nothing", "bare", "complete"} \cup Images
Over == {"nothing", "bare", "complete"}

TypeOK ==
  /\ now \in Seconds /\ made \subseteq Seconds /\ crashed \in BOOLEAN
  /\ \A s \in Seconds : disk[s] \subseteq Entries /\ (s \notin made => disk[s] = {})
  /\ \A x \in Exports :
       /\ exp[x].at \in {"query", "mkdir", "write", "walk", "remove", "done"}
       /\ exp[x].dir \in Seconds \cup {None} /\ exp[x].job \in [Events -> Jobs]
       /\ exp[x].images \in [Events -> 0..2] /\ exp[x].found \subseteq Entries
       /\ exp[x].answer \in {"none", "refused", "zip"}

NoExport == [at |-> "query", dir |-> None, job |-> [e \in Events |-> "nothing"],
             images |-> [e \in Events |-> 0], found |-> {}, answer |-> "none"]

Init ==
  /\ now = 0 /\ made = {} /\ crashed = FALSE
  /\ disk = [s \in Seconds |-> {}] /\ exp = [x \in Exports |-> NoExport]

-----------------------------------------------------------------------------
\* The limiter, the query and its errors; no events is an error too, that of Zip("").
Refused(x) ==
  /\ exp[x].at = "query"
  /\ exp' = [exp EXCEPT ![x].at = "done", ![x].answer = "refused"]
  /\ UNCHANGED <<now, made, disk, crashed>>

\* The events that were found by their ids or by the query. Those in S have the status
\* "finished", snapshots, and a type of vehicles or of bicycles: the others are passed
\* over. The directory gets its name.
Query(x, S) ==
  /\ exp[x].at = "query"
  /\ exp' = [exp EXCEPT ![x].at = "mkdir", ![x].dir = now,
                        ![x].job = [e \in Events |-> IF e \in S THEN "todo" ELSE "nothing"]]
  /\ UNCHANGED <<now, made, disk, crashed>>

\* os.MkdirAll: that the directory is there already is no error.
Mkdir(x) ==
  /\ exp[x].at = "mkdir"
  /\ made' = made \cup {exp[x].dir}
  /\ exp' = [exp EXCEPT ![x].at = "write"]
  /\ UNCHANGED <<now, disk, crashed>>

\* It cannot be made: the answer is an error, before anything is deferred.
MkdirFails(x) ==
  /\ exp[x].at = "mkdir"
  /\ exp' = [exp EXCEPT ![x].at = "done", ![x].answer = "refused"]
  /\ UNCHANGED <<now, made, disk, crashed>>

-----------------------------------------------------------------------------
(***************************************************************************)
(* The workers, of which there are enough for all events.                  *)
(***************************************************************************)
Here(x, e) == {f \in Files : <<x, e, f>> \in disk[exp[x].dir]}

\* The directory of an event, and those it is in when they are gone.
EventDir(x, e) ==
  /\ exp[x].at = "write" /\ exp[x].job[e] = "todo"
  /\ made' = made \cup {exp[x].dir}
  /\ disk' = [disk EXCEPT ![exp[x].dir] = @ \cup {<<x, e, "dir">>}]
  /\ exp' = [exp EXCEPT ![x].job[e] = "first"]
  /\ UNCHANGED <<now, crashed>>

EventDirFails(x, e) ==
  /\ exp[x].at = "write" /\ exp[x].job[e] = "todo"
  /\ exp' = [exp EXCEPT ![x].job[e] = "nothing"]
  /\ UNCHANGED <<now, made, disk, crashed>>

After(image) == IF image = "first" THEN "second" ELSE "ini"

\* Two pictures of the event are fetched and put side by side into one image.
MergeImage(x, e) ==
  /\ exp[x].at = "write" /\ exp[x].job[e] \in Images /\ "dir" \in Here(x, e)
  /\ disk' = [disk EXCEPT ![exp[x].dir] = @ \cup {<<x, e, exp[x].job[e]>>}]
  /\ exp' = [exp EXCEPT ![x].job[e] = After(@), ![x].images[e] = @ + 1]
  /\ UNCHANGED <<now, made, crashed>>

\* The event has too few snapshots, a picture cannot be fetched or read, or the directory
\* has gone meanwhile.
MergeFails(x, e) ==
  /\ exp[x].at = "write" /\ exp[x].job[e] \in Images
  /\ exp' = [exp EXCEPT ![x].job[e] = After(@)]
  /\ UNCHANGED <<now, made, disk, crashed>>

\* Something that is no picture comes back as no picture and no error, and the worker asks
\* for its bounds: the dashboard ends, with all its exports, and is started again.
MergePanics(x, e) ==
  /\ exp[x].at = "write" /\ exp[x].job[e] \in Images
  /\ crashed' = TRUE
  /\ exp' = [y \in Exports |-> IF exp[y].at \in {"query", "done"} THEN exp[y]
                               ELSE [NoExport EXCEPT !.at = "done", !.dir = exp[y].dir]]
  /\ UNCHANGED <<now, made, disk>>

\* len(images) != 2
Short(x, e) == exp[x].images[e] # 2

\* An event without both images is given up, and its directory removed.
GiveUp(x, e) ==
  /\ exp[x].at = "write" /\ exp[x].job[e] = "ini" /\ Short(x, e)
  /\ disk' = [disk EXCEPT ![exp[x].dir] = @ \ {<<x, e, f>> : f \in Files}]
  /\ exp' = [exp EXCEPT ![x].job[e] = "nothing"]
  /\ UNCHANGED <<now, made, crashed>>

Describe(x, e) ==
  /\ exp[x].at = "write" /\ exp[x].job[e] = "ini" /\ ~Short(x, e) /\ "dir" \in Here(x, e)
  /\ disk' = [disk EXCEPT ![exp[x].dir] = @ \cup {<<x, e, "ini">>}]
  /\ exp' = [exp EXCEPT ![x].job[e] = "complete"]
  /\ UNCHANGED <<now, made, crashed>>

\* The images stay where they are.
DescribeFails(x, e) ==
  /\ exp[x].at = "write" /\ exp[x].job[e] = "ini" /\ ~Short(x, e)
  /\ exp' = [exp EXCEPT ![x].job[e] = "bare"]
  /\ UNCHANGED <<now, made, disk, crashed>>

-----------------------------------------------------------------------------
\* wg.Wait()
AllOver(x) == \A e \in Events : exp[x].job[e] \in Over

\* Mutant: the answer is packed without waiting for the workers.
ZipBefore(x) ==
  /\ exp[x].at = "write" /\ exp[x].dir \in made
  /\ exp' = [exp EXCEPT ![x].at = "walk", ![x].found = disk[exp[x].dir]]
  /\ UNCHANGED <<now, made, disk, crashed>>

\* All workers are done. Zip reads the names and then the files one by one.
ZipStarts(x) ==
  /\ exp[x].at = "write" /\ AllOver(x) /\ exp[x].dir \in made
  /\ exp' = [exp EXCEPT ![x].at = "walk", ![x].found = disk[exp[x].dir]]
  /\ UNCHANGED <<now, made, disk, crashed>>

\* What was named is there until it is read; any error ends the walk.
ZipEnds(x) ==
  /\ exp[x].at = "walk" /\ exp[x].found \subseteq disk[exp[x].dir]
  /\ exp' = [exp EXCEPT ![x].at = "remove", ![x].answer = "zip"]
  /\ UNCHANGED <<now, made, disk, crashed>>

ZipFails(x) ==
  /\ \/ exp[x].at = "write" /\ AllOver(x)
     \/ exp[x].at = "walk"
  /\ exp' = [exp EXCEPT ![x].at = "remove", ![x].answer = "refused"]
  /\ UNCHANGED <<now, made, disk, crashed>>

RemoveAll(dir) == made' = made \ {dir} /\ disk' = [disk EXCEPT ![dir] = {}]

\* Mutant: the directory is removed only with a good answer.
RemoveAfterZip(x) ==
  /\ exp[x].at = "remove"
  /\ exp[x].answer = "zip" => RemoveAll(exp[x].dir)
  /\ exp[x].answer # "zip" => UNCHANGED <<made, disk>>
  /\ exp' = [exp EXCEPT ![x].at = "done"]
  /\ UNCHANGED <<now, crashed>>

\* The deferred os.RemoveAll, also after an error.
Remove(x) ==
  /\ exp[x].at = "remove"
  /\ RemoveAll(exp[x].dir)
  /\ exp' = [exp EXCEPT ![x].at = "done"]
  /\ UNCHANGED <<now, crashed>>

Tick == now < LastSecond /\ now' = now + 1 /\ UNCHANGED <<made, disk, exp, crashed>>

Work(x, e) ==
  \/ EventDir(x, e) \/ EventDirFails(x, e)
  \/ MergeImage(x, e) \/ MergeFails(x, e) \/ MergePanics(x, e)
  \/ GiveUp(x, e) \/ Describe(x, e) \/ DescribeFails(x, e)

Next ==
  \/ \E x \in Exports :
       \/ Refused(x) \/ Mkdir(x) \/ MkdirFails(x)
       \/ ZipStarts(x) \/ ZipEnds(x) \/ ZipFails(x) \/ Remove(x)
       \/ \E S \in SUBSET Events : Query(x, S)
       \/ \E e \in Events : Work(x, e)
  \/ Tick

Spec == Init /\ [][Next]_vars

-----------------------------------------------------------------------------
Shared(x) == \E y \in Exports \ {x} : exp[y].dir = exp[x].dir

Wrote(x, e) ==
  CASE exp[x].job[e] = "complete" -> Files
    [] exp[x].job[e] = "bare" -> Files \ {"ini"}
    [] OTHER -> {}

\* An export that shares its second with no other one has the evidence of its own events
\* and nothing else, and of an event both images, or it is left out (event.go:37, 152 of
\* the export). One that does may have events of the other, or lack its own without an
\* error.
ExportIsOwn ==
  \A x \in Exports :
    exp[x].answer = "zip" /\ ~Shared(x) =>
      exp[x].found = UNION {{x} \X {e} \X Wrote(x, e) : e \in Events}

\* When no export is under way nothing is left on the disk, whatever failed, and although
\* a worker makes again what another export has removed (dashboard event.go:571). What
\* was there when the dashboard ended in between stays for ever.
NothingLeftBehind ==
  ~crashed /\ (\A x \in Exports : exp[x].at \in {"query", "done"}) => made = {}
=============================================================================
