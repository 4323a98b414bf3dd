----------------------------- MODULE HistoryLog -----------------------------
(***************************************************************************)
(* The history of a server's info.  The driver's timer appends a stamp and *)
(* the info to a log file and tells the dialog of it; requests load the    *)
(* file back or clear it; the program may be killed while the buffer is    *)
(* being written.  The driver works in its own thread: requests and what   *)
(* it reports wait in queues.                                              *)
(*                                                                         *)
(* A shot is written as a stamp line and InfoLines lines, which stand for  *)
(* the text of its info.  The file is a sequence of pieces, each of them a *)
(* line or, if whole is FALSE, the beginning of one, which the next piece  *)
(* then continues.  The file class is external: opened for appending, as   *)
(* stdio does it, and at its end only after a read has met it.             *)
(***************************************************************************)
EXTENDS ServerInfo

CONSTANTS
  InfoLines,    \* lines of an info, each ended by a line break
  Replies,      \* what servers send: [type, text]
  MaxShots,     \* bound: times the timer fires
  MaxKills,     \* bound: times the program is killed while writing
  MaxRequests   \* bound: dialogs opened and clears asked for

ASSUME ConstantsAssumption ==
  /\ InfoLines \in Nat \ {0}
  /\ MaxShots \in Nat /\ MaxKills \in Nat /\ MaxRequests \in Nat
  /\ \A reply \in Replies : reply.type \in InfoTypes

VARIABLES
  running,   \* the driver runs and is connected
  opened,    \* log_file_ is open
  exists,    \* the file exists
  file,      \* its pieces
  shots,     \* shots taken so far; the stamps are their numbers
  kept,      \* shots since the history was last cleared
  torn,      \* those whose writing was cut
  kills,     \* times the program was killed
  requests,  \* requests the user made
  asked,     \* requests the driver has not handled
  events,    \* what the driver has reported and the dialog not seen
  dialog,    \* ServerHistoryDialog is shown
  infos,     \* ServerHistoryDialog::infos_
  missed     \* it kept its infos when the file was not found

fileVars   == <<opened, exists, file>>
shotVars   == <<shots, kept, torn, kills>>
dialogVars == <<dialog, infos, missed>>
vars == <<running, fileVars, shotVars, requests, asked, events, dialogVars>>

Piece == [shot : 1 .. MaxShots, line : 0 .. InfoLines, whole : BOOLEAN]

\* The stamp of a line that cannot be read as one number; see Glued.
Garbled == 0 - 1

Init ==
  /\ running = TRUE /\ opened = FALSE /\ exists = FALSE /\ file = <<>>
  /\ shots = 0 /\ kept = {} /\ torn = {} /\ kills = 0
  /\ requests = 0 /\ asked = <<>> /\ events = <<>>
  /\ dialog = FALSE /\ infos = <<>> /\ missed = FALSE

-----------------------------------------------------------------------------
(* Writing. *)

\* The stamp and the info of a shot.
Pieces(n) == [i \in 1 .. InfoLines + 1 |-> [shot |-> n, line |-> i - 1, whole |-> TRUE]]

\* A shot as the dialog gets it: with its info (live), or with lines to parse.
Shot(stamp, data, live) == [stamp |-> stamp, data |-> data, live |-> live]

\* What reaches the disk when the program is killed: some lines, perhaps a bit of
\* the next one.
Cuts(n) ==
  {SubSeq(Pieces(n), 1, k) : k \in 0 .. InfoLines} \cup
  {Append(SubSeq(Pieces(n), 1, k), [shot |-> n, line |-> k, whole |-> FALSE]) : k \in 0 .. InfoLines}

\* The file opened for appending is created if it is missing; a file that has been
\* removed while it was open takes the writes with it.
Written(ps) ==
  /\ exists' = (exists \/ ~opened)
  /\ file' = IF exists \/ ~opened THEN file \o ps ELSE file

\* timerEvent: a shot is taken, reported, and flushed in one go.
TimerEvent ==
  /\ running /\ shots < MaxShots
  /\ shots' = shots + 1
  /\ kept' = kept \cup {shots'}
  /\ events' = Append(events, [is |-> "shot", shot |-> Shot(shots', <<>>, TRUE)])
  /\ Written(Pieces(shots'))
  /\ opened' = TRUE
  /\ UNCHANGED <<running, torn, kills, requests, asked, dialogVars>>

\* timerEvent when the info cannot be had: the file is opened and nothing is written.
TimerOpens ==
  /\ running /\ ~opened
  /\ Written(<<>>)
  /\ opened' = TRUE
  /\ UNCHANGED <<running, shotVars, requests, asked, events, dialogVars>>

\* The program is killed in the middle of taking a shot.
Killed ==
  /\ running /\ shots < MaxShots /\ kills < MaxKills
  /\ shots' = shots + 1 /\ kills' = kills + 1
  /\ kept' = kept \cup {shots'} /\ torn' = torn \cup {shots'}
  /\ \E ps \in Cuts(shots') : Written(ps)
  /\ running' = FALSE /\ opened' = FALSE
  /\ asked' = <<>> /\ events' = <<>>
  /\ dialog' = FALSE /\ infos' = <<>> /\ missed' = FALSE
  /\ UNCHANGED requests

\* Another run of the program connects to the same server.
Restart ==
  /\ ~running /\ running' = TRUE
  /\ UNCHANGED <<fileVars, shotVars, requests, asked, events, dialogVars>>

-----------------------------------------------------------------------------
(* Clearing. *)

\* Mutant: the file is removed although log_file_ has it open.
ClearsByRemoving == exists' = FALSE /\ file' = <<>>

\* Mutant: an open file is left as it is.
ClearsClosedOnly == exists' = opened /\ file' = IF opened THEN file ELSE <<>>

\* An open file is truncated, another is removed.
Clears == exists' = opened /\ file' = <<>>

\* HandleClearServerHistoryEvent; when it fails nothing changes.
ClearServerHistory ==
  /\ running /\ asked # <<>> /\ Head(asked) = "clear"
  /\ asked' = Tail(asked)
  /\ \/ /\ Clears
        /\ kept' = {} /\ torn' = {}
        /\ events' = Append(events, [is |-> "cleared"])
     \/ UNCHANGED <<exists, file, kept, torn, events>>
  /\ UNCHANGED <<running, opened, shots, kills, requests, dialogVars>>

-----------------------------------------------------------------------------
(* Reading. *)

\* The pieces that end a line.  What follows the last is dropped, as no line break
\* ends it: the read that yields it has met the end of the file.
Ends == {i \in DOMAIN file : file[i].whole}

\* The first piece of the line that ends with e.
LineBegin(e) == Max({0} \cup {i \in Ends : i < e}) + 1

\* Lines whose stamp was cut and has another one glued to it: what the conversion
\* makes of that is open.
Glued == {e \in Ends : LineBegin(e) # e /\ file[LineBegin(e)].line = 0}

\* getStamp of a line: its time, 0 if it is no stamp; a glued line may be misread and
\* give a number nonetheless.
Stamp(e, misread) ==
  IF e \in misread THEN Garbled
  ELSE IF LineBegin(e) # e \/ file[e].line # 0 THEN 0
  ELSE file[e].shot

\* Mutant: each line is taken for a stamp.
StampsUnchecked(misread) == Ends

\* The lines that are stamps.
Stamps(misread) == {e \in Ends : Stamp(e, misread) # 0}

\* The shot that a stamp begins: its info is all lines up to the next stamp or the end.
ShotAt(e, misread) ==
  LET next == {s \in Stamps(misread) : s > e}
      last == IF next = {} THEN Max(Ends) ELSE LineBegin(Min(next)) - 1
  IN Shot(Stamp(e, misread), SubSeq(file, e + 1, last), FALSE)

\* The k-th smallest number of a set.
Nth(S, k) == CHOOSE e \in S : Cardinality({s \in S : s <= e}) = k

\* The loop of HandleLoadServerInfoHistoryEvent: the shots of all stamps; lines before
\* the first are read and dropped.
Parsed(misread) ==
  [k \in 1 .. Cardinality(Stamps(misread)) |-> ShotAt(Nth(Stamps(misread), k), misread)]

\* A missing file is an error.
LoadServerInfoHistory ==
  /\ running /\ asked # <<>> /\ Head(asked) = "load"
  /\ asked' = Tail(asked)
  /\ \E misread \in SUBSET Glued :
       events' = Append(events, IF exists THEN [is |-> "history", infos |-> Parsed(misread)]
                                          ELSE [is |-> "not found"])
  /\ UNCHANGED <<running, fileVars, shotVars, requests, dialogVars>>

-----------------------------------------------------------------------------
(* The dialog. *)

\* showEvent of a new dialog.
ShowDialog ==
  /\ running /\ ~dialog /\ requests < MaxRequests
  /\ requests' = requests + 1
  /\ dialog' = TRUE /\ infos' = <<>> /\ missed' = FALSE
  /\ asked' = Append(asked, "load")
  /\ UNCHANGED <<running, fileVars, shotVars, events>>

CloseDialog ==
  /\ dialog /\ dialog' = FALSE /\ infos' = <<>> /\ missed' = FALSE
  /\ UNCHANGED <<running, fileVars, shotVars, requests, asked, events>>

\* clearHistory of the dialog, or of the explorer's menu when there is none.
ClearHistory ==
  /\ running /\ requests < MaxRequests
  /\ requests' = requests + 1
  /\ asked' = Append(asked, "clear")
  /\ UNCHANGED <<running, fileVars, shotVars, events, dialogVars>>

\* snapShotAdd, finishLoadServerHistoryInfo and finishClearServerHistory of the
\* dialog, if there is one; an error leaves it as it is.
Report ==
  /\ running /\ events # <<>>
  /\ events' = Tail(events)
  /\ LET event == Head(events)
     IN /\ infos' = CASE dialog /\ event.is = "shot"    -> Append(infos, event.shot)
                      [] dialog /\ event.is = "history" -> event.infos
                      [] OTHER                          -> infos
        /\ missed' = CASE dialog /\ event.is = "history"   -> FALSE
                       [] dialog /\ event.is = "not found" -> infos # <<>>
                       [] OTHER                            -> missed
        /\ asked' = IF dialog /\ event.is = "cleared" THEN Append(asked, "load") ELSE asked
  /\ UNCHANGED <<running, fileVars, shotVars, requests, dialog>>

Next == \/ TimerEvent \/ TimerOpens \/ Killed \/ Restart
        \/ ClearServerHistory \/ LoadServerInfoHistory
        \/ ShowDialog \/ CloseDialog \/ ClearHistory \/ Report

Spec == Init /\ [][Next]_vars

-----------------------------------------------------------------------------
(* Properties. *)

Shots == [stamp : {Garbled} \cup 1 .. MaxShots, data : Seq(Piece), live : BOOLEAN]

\* Types of all variables.
TypeOK ==
  /\ running \in BOOLEAN /\ opened \in BOOLEAN /\ exists \in BOOLEAN
  /\ file \in Seq(Piece)
  /\ shots \in 0 .. MaxShots /\ kills \in 0 .. MaxKills /\ requests \in 0 .. MaxRequests
  /\ kept \subseteq 1 .. shots /\ torn \subseteq kept
  /\ asked \in Seq({"load", "clear"})
  /\ dialog \in BOOLEAN /\ missed \in BOOLEAN
  /\ infos \in Seq(Shots)

\* Shots written without a break, and so were their neighbours.
Sound == {n \in kept : {n - 1, n, n + 1} \cap torn = {}}

\* The dialog has seen all there is to see, and its file was there.
UpToDate == dialog /\ asked = <<>> /\ events = <<>> /\ ~missed

\* However shots, loads and clears cross each other, an up to date dialog shows each
\* sound shot once, in the order of the stamps and with its own info and no other: a
\* shot cut by a kill costs no more than the shots next to it.
SoundShotsShown ==
  UpToDate =>
    /\ \A n \in Sound : \E i \in DOMAIN infos : infos[i].stamp = n
    /\ \A i, j \in DOMAIN infos :
         i < j /\ {infos[i].stamp, infos[j].stamp} \subseteq Sound => infos[i].stamp < infos[j].stamp
    /\ \A i \in DOMAIN infos : infos[i].stamp \in Sound =>
         infos[i].live \/ infos[i].data = Tail(Pieces(infos[i].stamp))

\* An up to date dialog shows nothing that was not taken since the history was
\* cleared, except under the stamp of a line that a kill has garbled.
NothingElseShown == UpToDate => \A i \in DOMAIN infos : infos[i].stamp \in kept \cup {Garbled}

\* The info taken from a reply, and that info after it has been through the file.
Taken    == [reply \in Replies |-> CurrentServerInfo(reply.type, reply.text)]
FromFile == [reply \in Replies |-> MakeServerInfo(reply.type, TextOf(reply.type, Taken[reply]))]

\* The sections of a reply that are there with all before them and the one after.
Complete(reply) ==
  LET heads == InfoFields[reply.type]
      At(s) == {i \in DOMAIN reply.text : reply.text[i] = <<heads[s].name>>}
  IN {s \in 1 .. Len(heads) - 1 : \A r \in 1 .. s + 1 : At(r) # {}}

\* Each field of each reply is kept: read from the file it is what it was when it was
\* taken, or that number rounded to six digits if it is a float that has more, unless
\* it is memcached's; and for redis what was taken is what the server sent under this
\* label, or none for a section that is not complete.
FieldsKept ==
  \A reply \in Replies : \A s \in DOMAIN InfoFields[reply.type] :
    \A f \in DOMAIN InfoFields[reply.type][s].fields :
      LET label == InfoFields[reply.type][s].fields[f]
          taken == ValueByIndexes(reply.type, Taken[reply], s, f)
          read  == ValueByIndexes(reply.type, FromFile[reply], s, f)
          Sent(v) == \E i \in DOMAIN reply.text : reply.text[i] = <<label, v>>
      IN /\ \/ reply.type = "memcached" \/ read = taken
            \/ label \in FloatFields /\ taken = "nearest" /\ read = "rounded"
         /\ reply.type = "redis" /\ label \notin Forgotten =>
              IF s \in Complete(reply)
              THEN \A v \in {"fits", "wide"} : Sent(v) => taken = Converted(label, v)
              ELSE taken = "none"

\* Whatever servers send, a sound shot that comes from the file shows under each label
\* of the dialog the value that was shown when the shot was taken, which is what the
\* server sent under it.  Excluded are memcached, whose only section is never parsed,
\* numbers of more than 32 bits, and the digits after the sixth of the five floats of
\* redis, which a live shot shows and one from the file does not.
FieldsShown == (\E i \in DOMAIN infos : infos[i].stamp \in Sound /\ ~infos[i].live) => FieldsKept
=============================================================================
