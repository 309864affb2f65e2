------------------------------ MODULE SandboxFiles ------------------------------
(***************************************************************************)
(* The sandbox's file service.  Requests run at the same time: the         *)
(* application awaits a thread or a shell between their steps.  A plain    *)
(* write opens the file and fills it; a write with sudo fills one          *)
(* temporary file, which all such writes share, and has a shell copy it;   *)
(* a replacement reads the whole file and writes it back.                  *)
(*                                                                         *)
(* A text is a sequence of chunks; a request writes chunks of its own      *)
(* name.  A plain read turns CRLF into LF, as Python's text mode does.     *)
(* A request may fail at any step: before it opens the file, or with the   *)
(* file emptied or written in part.  Names of files, line ranges and       *)
(* patterns are left out.                                                  *)
(***************************************************************************)
EXTENDS Naturals, Sequences

CONSTANTS FileReqs,     \* requests, each of them also the chunk it writes
          Paths,
          MaxLen        \* bound on the length of a text

\* A text of the first ones, or of a request, fits.
ASSUME FilesAssumption == Paths # {} /\ MaxLen \in Nat /\ 2 <= MaxLen

VARIABLES disk,         \* Paths -> [there, text]
          temp,         \* the shared temporary file
          op,           \* FileReqs -> the request's state
          wanted,        \* Paths -> what the file should be, by the answers given
          risk          \* paths in doubt: their requests overlapped, or one failed with the file open

fileVars == <<disk, temp, op, wanted, risk>>

Absent == [there |-> FALSE, text |-> <<>>]
Of(text) == [there |-> TRUE, text |-> text]
Chunk == FileReqs \cup {"crlf", "lf", "nul"}
FileKinds == {"write", "append", "upload", "replace", "read"}
NewOp == [pc |-> "new", kind |-> "read", path |-> CHOOSE p \in Paths : TRUE, sudo |-> FALSE,
          old |-> "lf", text |-> <<>>, at |-> 0, clash |-> FALSE, right |-> TRUE]

FilesInit ==
  /\ disk \in [Paths -> {Absent, Of(<<"crlf", "crlf">>)}]
  /\ wanted = disk /\ temp = Absent /\ risk = {}
  /\ op = [r \in FileReqs |-> NewOp]

Pending(r) == op[r].pc \notin {"new", "answered", "failed"}
Writes(o) == o.kind # "read"

\* Two requests whose outcome depends on their order in time: both on one file and one
\* of them a write, or both through the temporary file.
Clash(o, q) == \/ o.path = q.path /\ (Writes(o) \/ Writes(q))
               \/ o.sudo /\ q.sudo /\ Writes(o) /\ Writes(q)

\* The first step of writing o.text.
Opening(o) == [o EXCEPT !.pc = IF o.sudo THEN "temp" ELSE "open", !.at = 0]

AskFile(r, kind, p, sudo, old) ==
  /\ op[r].pc = "new" /\ (kind = "upload" => ~sudo) /\ (kind # "replace" => old = "lf") /\ old # r
  /\ LET o == [NewOp EXCEPT !.kind = kind, !.path = p, !.sudo = sudo, !.old = old, !.text = <<r, r>>, !.pc = "read"]
         others == {q \in FileReqs : Pending(q) /\ Clash(o, op[q])}
         mine == [o EXCEPT !.clash = others # {}]
     IN  op' = [q \in FileReqs |->
                  IF q = r THEN IF kind \in {"replace", "read"} THEN mine ELSE Opening(mine)
                  ELSE IF q \in others THEN [op[q] EXCEPT !.clash = TRUE] ELSE op[q]]
  /\ UNCHANGED <<disk, temp, wanted, risk>>

-----------------------------------------------------------------------------
(* What a text becomes.                                                     *)

Plain(text) == [i \in DOMAIN text |-> IF text[i] = "crlf" THEN "lf" ELSE text[i]]
Contents(o, f) == IF o.sudo THEN f.text ELSE Plain(f.text)
Replaced(text, old, new) == [i \in DOMAIN text |-> IF text[i] = old THEN new ELSE text[i]]
Holds(text, x) == \E i \in DOMAIN text : text[i] = x

\* A chunk written at an offset: beyond the end, the gap reads as zeros.
WrittenAt(text, at, x) ==
  [i \in 1..(IF at < Len(text) THEN Len(text) ELSE at + 1) |->
     IF i = at + 1 THEN x ELSE IF i <= Len(text) THEN text[i] ELSE "nul"]

\* What a request alone makes of a file.
WrittenTo(r, f) ==
  LET o == op[r]
      seen == IF o.sudo THEN f.text ELSE Plain(f.text)
  IN  CASE o.kind \in {"write", "upload"} -> Of(<<r, r>>)
        [] o.kind = "append" -> Of(f.text \o <<r, r>>)
        [] o.kind = "replace" /\ f.there /\ Holds(seen, o.old) -> Of(Replaced(seen, o.old, r))
        [] OTHER -> f

-----------------------------------------------------------------------------
(* The steps of a request.                                                  *)

\* The answer: the ghosts follow.  A clean whole write makes the file known again.
EndFile(r, how) ==
  LET o == op[r]
  IN  /\ op' = [op EXCEPT ![r].pc = how]
      /\ wanted' = IF how = "answered" /\ ~o.clash THEN [wanted EXCEPT ![o.path] = WrittenTo(r, @)] ELSE wanted
      /\ risk' = IF o.clash THEN risk \cup {o.path}
                 ELSE IF o.kind \in {"write", "upload"} /\ how = "answered" THEN risk \ {o.path} ELSE risk

\* Refused before the file was opened: it is not there, does not decode, cannot be
\* opened, or the temporary file could not be written.
FailEarly(r) ==
  /\ op[r].pc \in {"read", "open", "temp", "filltemp"}
  /\ op' = [op EXCEPT ![r].pc = "failed"]
  /\ UNCHANGED <<disk, temp, wanted, risk>>

\* read, search in content, download: what they see, and whether it is what was meant.
LookAt(r) ==
  /\ op[r].pc = "read" /\ op[r].kind = "read" /\ disk[op[r].path].there
  /\ op' = [op EXCEPT ![r].pc = "answered",
                      ![r].right = \/ op[r].clash \/ op[r].path \in risk
                                   \/ Contents(op[r], disk[op[r].path]) = Contents(op[r], wanted[op[r].path])]
  /\ UNCHANGED <<disk, temp, wanted, risk>>

ReadToReplace(r) ==
  LET o == op[r]   text == Contents(o, disk[o.path])
  IN  /\ o.pc = "read" /\ o.kind = "replace" /\ disk[o.path].there
      /\ IF Holds(text, o.old)
         THEN op' = [op EXCEPT ![r] = Opening([o EXCEPT !.text = Replaced(text, o.old, r)])] /\ UNCHANGED <<wanted, risk>>
         ELSE EndFile(r, "answered")
      /\ UNCHANGED <<disk, temp>>

\* open: "w" empties the file.
OpenFile(r) ==
  LET o == op[r]
  IN  /\ o.pc = "open" /\ UNCHANGED <<temp, wanted, risk>>
      /\ op' = [op EXCEPT ![r].pc = "fill"]
      /\ disk' = [disk EXCEPT ![o.path] = IF o.kind = "append" THEN Of(@.text) ELSE Of(<<>>)]

Fill(r) ==
  LET o == op[r]   f == disk[o.path]
  IN  /\ o.pc = "fill" /\ o.at < Len(o.text) /\ Len(f.text) < MaxLen
      /\ disk' = [disk EXCEPT ![o.path].text =
                    IF o.kind = "append" THEN Append(@, o.text[o.at + 1]) ELSE WrittenAt(@, o.at, o.text[o.at + 1])]
      /\ op' = [op EXCEPT ![r].at = @ + 1]
      /\ UNCHANGED <<temp, wanted, risk>>

Close(r) ==
  /\ op[r].pc = "fill" /\ op[r].at = Len(op[r].text) /\ EndFile(r, "answered")
  /\ UNCHANGED <<disk, temp>>

\* With sudo: the temporary file is opened, filled, copied by a shell and unlinked.
OpenTemp(r) ==
  /\ op[r].pc = "temp" /\ temp' = Of(<<>>) /\ op' = [op EXCEPT ![r].pc = "filltemp"]
  /\ UNCHANGED <<disk, wanted, risk>>

FillTemp(r) ==
  LET o == op[r]
  IN  /\ o.pc = "filltemp" /\ o.at < Len(o.text)
      /\ temp' = IF temp.there THEN Of(WrittenAt(temp.text, o.at, o.text[o.at + 1])) ELSE temp
      /\ op' = [op EXCEPT ![r].at = @ + 1]
      /\ UNCHANGED <<disk, wanted, risk>>

\* The shell opens the target before cat opens its argument.
Redirect(r) ==
  LET o == op[r]
  IN  /\ o.pc = "filltemp" /\ o.at = Len(o.text)
      /\ disk' = [disk EXCEPT ![o.path] = IF o.kind = "append" THEN Of(@.text) ELSE Of(<<>>)]
      /\ op' = [op EXCEPT ![r].pc = "cat", ![r].at = 0]
      /\ UNCHANGED <<temp, wanted, risk>>

\* A file that held a body once a text has been copied to it, through ">>" or ">".
Catted(o, body, text) ==
  IF o.kind = "append" THEN body \o text ELSE text \o SubSeq(body, Len(text) + 1, Len(body))

Cat(r) ==
  LET o == op[r]   f == disk[o.path]
  IN  /\ o.pc = "cat" /\ UNCHANGED temp
      /\ IF temp.there
         THEN /\ Len(f.text) + Len(temp.text) <= MaxLen /\ op' = [op EXCEPT ![r].pc = "unlink"]
              /\ disk' = [disk EXCEPT ![o.path].text = Catted(o, @, temp.text)]
              /\ UNCHANGED <<wanted, risk>>
         ELSE EndFile(r, "failed") /\ UNCHANGED disk

\* An error when another request has unlinked it.
Unlink(r) ==
  /\ op[r].pc = "unlink" /\ temp' = Absent /\ UNCHANGED disk
  /\ EndFile(r, IF temp.there THEN "answered" ELSE "failed")

\* A write or a copy that fails once the file is open, or an unlink: the request is
\* refused with the file as far as it got, and the temporary file stays.
FallShort(r) ==
  LET o == op[r]
  IN  /\ \/ o.pc \in {"fill", "unlink"} /\ UNCHANGED disk
         \/ /\ o.pc = "cat" /\ temp.there /\ Len(disk[o.path].text) + Len(temp.text) <= MaxLen
            /\ \E n \in 0..Len(temp.text) :
                 disk' = [disk EXCEPT ![o.path].text = Catted(o, @, SubSeq(temp.text, 1, n))]
      /\ op' = [op EXCEPT ![r].pc = "failed"] /\ risk' = risk \cup {o.path}
      /\ UNCHANGED <<temp, wanted>>

FilesNext ==
  \E r \in FileReqs :
    \/ \E kind \in FileKinds, p \in Paths, sudo \in BOOLEAN, old \in FileReqs \cup {"lf"} : AskFile(r, kind, p, sudo, old)
    \/ FailEarly(r) \/ LookAt(r) \/ ReadToReplace(r) \/ OpenFile(r) \/ Fill(r) \/ Close(r)
    \/ OpenTemp(r) \/ FillTemp(r) \/ Redirect(r) \/ Cat(r) \/ Unlink(r) \/ FallShort(r)

FilesSpec == FilesInit /\ [][FilesNext]_fileVars

-----------------------------------------------------------------------------
FilesTypeOK ==
  /\ \A p \in Paths : Len(disk[p].text) <= MaxLen /\ \A i \in DOMAIN disk[p].text : disk[p].text[i] \in Chunk
  /\ risk \subseteq Paths
  /\ \A r \in FileReqs : op[r].pc \in {"new", "read", "open", "fill", "temp", "filltemp", "cat", "unlink", "answered", "failed"}

(* Of a file whose requests neither overlapped nor failed with it open      *)
(* nothing is lost or mixed: when nobody works on it, it is what the        *)
(* answered requests made of it one after the other, a replacement touched  *)
(* nothing but what it replaced, a read returned just that, and a request   *)
(* refused before it opened the file left it alone.  A whole write that is  *)
(* answered ends the doubt about a file.                                    *)
FilesHonest ==
  /\ \A p \in Paths : p \notin risk /\ (\A r \in FileReqs : Pending(r) => op[r].path # p) => disk[p] = wanted[p]
  /\ \A r \in FileReqs : op[r].right
=============================================================================
