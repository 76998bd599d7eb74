------------------------------ MODULE LogFile ------------------------------
(***************************************************************************)
(* A log of agctl's (secret/audit.rs): a file only ever appended to, one   *)
(* line an entry, through a name that must be a regular file of mode 0600. *)
(*                                                                         *)
(* Nothing locks the log.  An append is one `write_all`: a disk that is    *)
(* full takes a part of it, the process may die there, and another's entry *)
(* may come before the rest.  What follows continues a line that has no    *)
(* newline yet.                                                            *)
(***************************************************************************)
EXTENDS Naturals, Sequences

\* What is at the log's name: nothing, one of the files, or what agctl refuses.
Nothing == [kind |-> "absent", file |-> 0]
Refused == [kind |-> "link", file |-> 0]
Named(i) == [kind |-> "file", file |-> i]

\* A file: whether its mode is 0600, its lines, and whether the last one is ended.  A line is the
\* parts of entries that were written into it.
NewFile == [fit |-> TRUE, lines |-> <<>>, ended |-> TRUE]
Part(entry, which) == [of |-> entry, part |-> which]

\* Whether an append opens what is at the name, creating it where nothing is.
Appendable(at, files) == at.kind = "absent" \/ (at.kind = "file" /\ files[at.file].fit)

\* The descriptor an open answers with, and the files after it.
Opened(at, files) == IF at.kind = "absent" THEN Len(files) + 1 ELSE at.file
Created(at, files) == IF at.kind = "absent" THEN Append(files, NewFile) ELSE files

\* O_APPEND: at the end of the file as it is now, whoever wrote last.
Extended(f, part, ends) ==
    [fit   |-> f.fit,
     ended |-> ends,
     lines |-> IF f.ended THEN Append(f.lines, <<part>>)
               ELSE [f.lines EXCEPT ![Len(f.lines)] = Append(@, part)]]

\* The newline of an entry whose text is out already: where another line has been ended since, it
\* only makes an empty one.
Ended(f) == [f EXCEPT !.ended = TRUE]

\* A line is read when it is one whole entry and nothing else.
Parses(line) ==
    \/ Len(line) = 1 /\ line[1].part = "whole"
    \/ Len(line) = 2 /\ line[1].part = "head" /\ line[2] = Part(line[1].of, "rest")

\* What a reader sees, whatever the mode: the entries that parse, each at its line, and whether a
\* line does not.
Contents(at, files) == IF at.kind = "file" THEN files[at.file].lines ELSE <<>>
EntriesIn(lines) == [i \in {j \in DOMAIN lines : Parses(lines[j])} |-> lines[i][1].of]
Unreadable(lines) == \E i \in DOMAIN lines : ~Parses(lines[i])
=============================================================================
