-------------------------------- MODULE Ldif --------------------------------
(* The archive's text: what backup_to_ldif writes, line by line, and what   *)
(* restore_from_ldif adds to a directory server when it reads it back, with *)
(* a connection that may break and a worker that may die at any line.       *)
EXTENDS Naturals, Sequences, SequencesExt

CONSTANTS
    Dns,        \* distinguished names of entries
    Parent,     \* the entry above each of them, or Root
    Root,       \* above the base of the search: always there
    Sources,    \* what a search may return: sequences of entries
    Targets,    \* what a directory server may hold before
    MaxRuns,    \* bound on the restores of one archive
    None

ASSUME LdifAssumption ==
    /\ Root \notin Dns /\ None \notin Dns \cup {Root}
    /\ Parent \in [Dns -> Dns \cup {Root}]
    /\ MaxRuns \in Nat
    /\ \A t \in Targets : IsFiniteSet(DOMAIN t) /\ DOMAIN t \subseteq Dns

VARIABLES
    entries,    \* the entries that the search returned
    file,       \* the decrypted and decompressed archive: a sequence of lines
    had,        \* the directory before the first restore
    directory,  \* the directory now: attributes of the entries that exist
    reader,     \* the running restore
    runs        \* restores begun so far

ldifVars == <<entries, file, had, directory, reader, runs>>

\* Lines, and pieces of a value, which become lines when the value has line
\* breaks.  A coded line is "attr:: base64".
Word(x)       == [kind |-> "word", text |-> x]
Blank         == [kind |-> "blank"]
DnLine(d)     == [kind |-> "dn", dn |-> d]
AttrLine(a, p, coded) == [kind |-> "attr", attr |-> a, value |-> p, coded |-> coded]

\* An entry has a name and a sequence of attribute values; the pieces of a
\* value are its lines, a value that is not UTF-8 is coded and has one piece.
Value(a, pieces, coded) == [attr |-> a, pieces |-> pieces, coded |-> coded]
Single(v)  == Len(v.pieces) = 1 /\ ~ v.coded
Read(v)    == [attr |-> v.attr, value |-> Head(v.pieces), coded |-> v.coded]

IsLine(l) == /\ l.kind \in {"word", "blank", "dn", "attr"}
             /\ l.kind = "dn" => l.dn \in Dns /\ l = DnLine(l.dn)

\* What a search returns: referrals without a name, and entries whose values
\* are a set, so that none comes twice, and have at least one piece.
IsEntry(e) ==
    /\ e.dn \in Dns \cup {None}
    /\ e.values \in Seq(ToSet(e.values))
    /\ \A v \in ToSet(e.values) :
          /\ v.pieces \in Seq(ToSet(v.pieces)) /\ v.pieces # <<>>
          /\ \A l \in ToSet(v.pieces) : IsLine(l)
    /\ \A i, j \in DOMAIN e.values :
          /\ e.values[i].attr = e.values[j].attr
          /\ e.values[i].pieces = e.values[j].pieces
          /\ e.values[i].coded = e.values[j].coded
          => i = j

ASSUME SourcesAssumption ==
    \A es \in Sources : es \in Seq(ToSet(es)) /\ \A e \in ToSet(es) : IsEntry(e)

-----------------------------------------------------------------------------
(* backup_to_ldif *)

\* Slip: no blank line after an entry.
EntryLinesSlip(e) ==
    <<DnLine(e.dn)>>
        \o FlattenSeq([i \in DOMAIN e.values |->
              <<AttrLine(e.values[i].attr, Head(e.values[i].pieces), e.values[i].coded)>>
                  \o Tail(e.values[i].pieces)])

\* "dn: ", one line per value but for the line breaks of the value itself,
\* which are written as they are, and a blank line.
EntryLines(e) ==
    <<DnLine(e.dn)>>
        \o FlattenSeq([i \in DOMAIN e.values |->
              <<AttrLine(e.values[i].attr, Head(e.values[i].pieces), e.values[i].coded)>>
                  \o Tail(e.values[i].pieces)])
        \o <<Blank>>

\* Referrals come without a name and are passed over.
BackupToLdif(es) ==
    FlattenSeq([i \in DOMAIN es |-> IF es[i].dn = None THEN <<>> ELSE EntryLines(es[i])])

-----------------------------------------------------------------------------
(* restore_from_ldif *)

\* before is what the directory held when the restore began.
NoReader == [line |-> 0, dn |-> None, attrs |-> <<>>, online |-> FALSE,
             restored |-> 0, before |-> {}, status |-> "idle"]

LdifInit ==
    /\ entries \in Sources
    /\ file = BackupToLdif(entries)
    /\ had \in Targets
    /\ directory = had
    /\ reader = NoReader
    /\ runs = 0

Reading  == reader.status = "reading"
Line     == file[reader.line]
Step(r)  == reader' = [r EXCEPT !.line = @ + 1]

\* The restore connects; when that fails nothing has happened.
Open ==
    /\ ~ Reading
    /\ runs < MaxRuns
    /\ runs' = runs + 1
    /\ reader' = [NoReader EXCEPT !.line = 1, !.online = TRUE, !.status = "reading",
                                  !.before = DOMAIN directory]
    /\ UNCHANGED <<entries, file, had, directory>>

ReadDn ==
    /\ Reading /\ reader.line <= Len(file) /\ Line.kind = "dn"
    /\ Step([reader EXCEPT !.dn = Line.dn])
    /\ UNCHANGED <<entries, file, had, directory, runs>>

\* A line "attr:: text" is split at ": ", so its attribute is "attr:".
ReadAttr ==
    /\ Reading /\ reader.line <= Len(file) /\ Line.kind = "attr"
    /\ Step([reader EXCEPT !.attrs = Append(@,
                [attr |-> Line.attr, value |-> Line.value, coded |-> Line.coded])])
    /\ UNCHANGED <<entries, file, had, directory, runs>>

ReadOther ==
    /\ Reading /\ reader.line <= Len(file) /\ Line.kind = "word"
    /\ Step(reader)
    /\ UNCHANGED <<entries, file, had, directory, runs>>

\* What a server accepts: a new entry below one that exists, with legal
\* attribute names and no value twice.
Accepts(dir, dn, attrs) ==
    /\ dn \notin DOMAIN dir
    /\ Parent[dn] \in DOMAIN dir \cup {Root}
    /\ \A i, j \in DOMAIN attrs : attrs[i] = attrs[j] => i = j
    /\ \A i \in DOMAIN attrs : ~ attrs[i].coded

\* Slip: the server forgets what it held.
AddedSlip(dir, dn, attrs) == [d \in {dn} |-> {attrs[i] : i \in DOMAIN attrs}]

Added(dir, dn, attrs) ==
    [d \in DOMAIN dir \cup {dn} |->
        IF d = dn THEN {attrs[i] : i \in DOMAIN attrs} ELSE dir[d]]

\* Slip: the attributes of one entry stay for the next.
ReadBlankSlip ==
    /\ Reading /\ reader.line <= Len(file) /\ Line.kind = "blank"
    /\ IF /\ reader.dn # None /\ reader.attrs # <<>>
          /\ reader.online /\ Accepts(directory, reader.dn, reader.attrs)
       THEN /\ directory' = Added(directory, reader.dn, reader.attrs)
            /\ Step([reader EXCEPT !.dn = None, !.restored = @ + 1])
       ELSE /\ Step([reader EXCEPT !.dn = None])
            /\ UNCHANGED directory
    /\ UNCHANGED <<entries, file, had, runs>>

\* Slip: an entry that exists already counts as restored.
ReadBlankCounts ==
    /\ Reading /\ reader.line <= Len(file) /\ Line.kind = "blank"
    /\ LET full == reader.dn # None /\ reader.attrs # <<>> /\ reader.online
           take == full /\ Accepts(directory, reader.dn, reader.attrs)
       IN /\ directory' = IF take THEN Added(directory, reader.dn, reader.attrs)
                          ELSE directory
          /\ Step([reader EXCEPT !.dn = None, !.attrs = <<>>,
                     !.restored = IF take \/ (full /\ reader.dn \in DOMAIN directory)
                                  THEN @ + 1 ELSE @])
    /\ UNCHANGED <<entries, file, had, runs>>

\* The end of an entry: it is added, and an LDAP error, also that of a lost
\* connection, is printed and forgotten.
ReadBlank ==
    /\ Reading /\ reader.line <= Len(file) /\ Line.kind = "blank"
    /\ IF /\ reader.dn # None /\ reader.attrs # <<>>
          /\ reader.online /\ Accepts(directory, reader.dn, reader.attrs)
       THEN /\ directory' = Added(directory, reader.dn, reader.attrs)
            /\ Step([reader EXCEPT !.dn = None, !.attrs = <<>>, !.restored = @ + 1])
       ELSE /\ Step([reader EXCEPT !.dn = None, !.attrs = <<>>])
            /\ UNCHANGED directory
    /\ UNCHANGED <<entries, file, had, runs>>

\* End of file: whatever was added, perform_restore goes on to COMPLETED.
Close ==
    /\ Reading
    /\ reader.line = Len(file) + 1
    /\ reader' = [reader EXCEPT !.status = "completed"]
    /\ UNCHANGED <<entries, file, had, directory, runs>>

\* The server executes an add and its reply is lost: add_s raises SERVER_DOWN,
\* so the entry is there and does not count.
LoseReply ==
    /\ Reading /\ reader.line <= Len(file) /\ Line.kind = "blank"
    /\ reader.dn # None /\ reader.attrs # <<>>
    /\ reader.online /\ Accepts(directory, reader.dn, reader.attrs)
    /\ directory' = Added(directory, reader.dn, reader.attrs)
    /\ Step([reader EXCEPT !.dn = None, !.attrs = <<>>, !.online = FALSE])
    /\ UNCHANGED <<entries, file, had, runs>>

\* The connection goes before the server has the next add; nothing connects again.
LoseConnection ==
    /\ Reading /\ reader.online
    /\ reader' = [reader EXCEPT !.online = FALSE]
    /\ UNCHANGED <<entries, file, had, directory, runs>>

Die ==
    /\ Reading
    /\ reader' = NoReader
    /\ UNCHANGED <<entries, file, had, directory, runs>>

LdifNext == \/ Open \/ ReadDn \/ ReadAttr \/ ReadOther \/ ReadBlank
            \/ Close \/ LoseReply \/ LoseConnection \/ Die

LdifSpec == LdifInit /\ [][LdifNext]_ldifVars

-----------------------------------------------------------------------------
(* What is promised *)

LdifTypeOK ==
    /\ DOMAIN had \subseteq DOMAIN directory /\ DOMAIN directory \subseteq Dns
    /\ DOMAIN reader = DOMAIN NoReader
    /\ reader.line \in 0..Len(file) + 1
    /\ reader.dn \in Dns \cup {None}
    /\ reader.online \in BOOLEAN
    /\ reader.status \in {"idle", "reading", "completed"}
    /\ runs \in 0..MaxRuns

\* The run that just ended read every line with its connection up.
Undisturbed == reader.status = "completed" /\ reader.online

\* An entry that one line per value can say.
Plain(e) ==
    /\ e.dn # None /\ e.values # <<>>
    /\ \A i \in DOMAIN e.values : Single(e.values[i])

Content(e) == {Read(e.values[i]) : i \in DOMAIN e.values}

\* The entry is plain, and so are those it hangs from, each before the next.
HangTogether(G) == \A i \in G :
    /\ Plain(entries[i])
    /\ LET above == Parent[entries[i].dn] IN
       above \in DOMAIN had \cup {Root} \/ \E j \in G : j < i /\ entries[j].dn = above
Sound(i) == \E G \in SUBSET DOMAIN entries : i \in G /\ HangTogether(G)

\* No other line of the archive reads like the first line of this entry.
Unmistaken(e) == \A i, j \in DOMAIN file :
    file[i] = DnLine(e.dn) /\ file[j] = DnLine(e.dn) => i = j

\* A restore that was not disturbed leaves every sound entry in the directory
\* with exactly its own attributes, or those it had before, whatever its
\* neighbours in the file look like and however often earlier restores of the
\* same archive broke off.
PlainComesBack ==
    Undisturbed => \A i \in DOMAIN entries :
        LET e == entries[i] IN
        Sound(i) /\ Unmistaken(e) =>
            /\ e.dn \in DOMAIN directory
            /\ directory[e.dn] = IF e.dn \in DOMAIN had THEN had[e.dn] ELSE Content(e)

\* entries_restored is the number of entries this restore added: an entry that
\* existed, one that was refused and one sent to a lost connection do not count.
\* It may be one too low, and only after the connection was lost: the entry whose
\* reply was lost with it, since every later add fails at once.
CountIsAdded ==
    reader.status # "idle" =>
        LET added == Cardinality(DOMAIN directory) - Cardinality(reader.before) IN
        \/ reader.restored = added
        \/ ~ reader.online /\ reader.restored + 1 = added

\* The archive as blocks between blank lines: the lines of a block before line
\* n, the last name among them, and all their attributes.
Block(n) == {i \in 1..(n - 1) : \A k \in i..(n - 1) : file[k].kind # "blank"}
Names(n) == {i \in Block(n) : file[i].kind = "dn"}
NameAt(n)  == IF Names(n) = {} THEN None
              ELSE file[CHOOSE i \in Names(n) : \A j \in Names(n) : j <= i].dn
AttrsAt(n) == [i \in {j \in Block(n) : file[j].kind = "attr"} |->
                 [attr |-> file[i].attr, value |-> file[i].value, coded |-> file[i].coded]]

\* The directory after the blocks up to line n were added to what it had.
Reference[n \in 0..Len(file)] ==
    IF n = 0 THEN had
    ELSE LET dir == Reference[n - 1] IN
         IF /\ file[n].kind = "blank"
            /\ NameAt(n) # None /\ DOMAIN AttrsAt(n) # {}
            /\ Accepts(dir, NameAt(n), AttrsAt(n))
         THEN Added(dir, NameAt(n), AttrsAt(n))
         ELSE dir

\* A restore that is repeated after broken ones reaches at least the entries
\* of one that was never disturbed, and a first one exactly its result.
RepeatReaches ==
    Undisturbed =>
        /\ DOMAIN Reference[Len(file)] \subseteq DOMAIN directory
        /\ runs = 1 => directory = Reference[Len(file)]

\* Why the three hold, and what the proofs carry from line to line.
\* Where the lines of the first i entries end.
End(i) == Len(BackupToLdif(SubSeq(entries, 1, i)))

\* Nothing of one entry is left when the next begins; inside a plain entry the
\* reader holds its name and the values so far; the name of an unmistaken entry
\* is held inside that entry only.
ReaderFollows ==
    reader.status = "reading" =>
        /\ reader.line >= 1
        /\ reader.line = 1 \/ file[reader.line - 1].kind = "blank"
              => reader.dn = None /\ reader.attrs = <<>>
        /\ \A i \in DOMAIN entries : Plain(entries[i]) =>
              LET e == entries[i] IN
              /\ \A k \in 0..Len(e.values) :
                    reader.line = End(i - 1) + 2 + k =>
                        /\ reader.dn = e.dn
                        /\ reader.attrs = [j \in 1..k |-> Read(e.values[j])]
              /\ Unmistaken(e) /\ reader.dn = e.dn =>
                    reader.line \in End(i - 1) + 2 .. End(i)

\* What was there stays as it was, what was added of an unmistaken entry is
\* its content, and with the connection up every sound entry passed is there.
DirectoryFollows ==
    /\ \A d \in DOMAIN had : d \in DOMAIN directory /\ directory[d] = had[d]
    /\ \A i \in DOMAIN entries :
          LET e == entries[i] IN
          /\ Plain(e) /\ Unmistaken(e) /\ e.dn \in DOMAIN directory \ DOMAIN had
                => directory[e.dn] = Content(e)
          /\ reader.online /\ Sound(i) /\ End(i) < reader.line => e.dn \in DOMAIN directory
    /\ reader.status = "completed" => reader.line = Len(file) + 1

\* The counter, with what it counts from.
CountFollows ==
    /\ IsFiniteSet(DOMAIN directory)
    /\ reader.before \subseteq DOMAIN directory
    /\ reader.restored \in Nat
    /\ CountIsAdded

\* The reader holds the name and the attributes of the block so far, and with
\* the connection up the directory is not behind the reference; in the first
\* restore it is the reference.
BlockFollows ==
    /\ reader.status = "reading" =>
         /\ reader.dn = NameAt(reader.line)
         /\ reader.attrs \in Seq(ToSet(reader.attrs))
         /\ \E p \in Bijection(DOMAIN reader.attrs, DOMAIN AttrsAt(reader.line)) :
              \A j \in DOMAIN reader.attrs : reader.attrs[j] = AttrsAt(reader.line)[p[j]]
    /\ reader.online =>
         /\ reader.line \in 1..Len(file) + 1
         /\ DOMAIN Reference[reader.line - 1] \subseteq DOMAIN directory
         /\ runs = 1 => directory = Reference[reader.line - 1]
    /\ runs = 0 => directory = had /\ reader.status = "idle"

\* The archive is what was written, and nothing rewrites it.
Written == entries \in Sources /\ file = BackupToLdif(entries) /\ had \in Targets

LdifInv == Written /\ LdifTypeOK /\ ReaderFollows /\ DirectoryFollows /\ CountFollows
           /\ BlockFollows

\* What the comment of the writer says of binary data, restored into an empty
\* directory.
BinaryComesBack ==
    Undisturbed /\ runs = 1 => \A i \in DOMAIN entries :
        LET e == entries[i] IN
        /\ e.dn # None /\ Parent[e.dn] = Root
        /\ \E j \in DOMAIN e.values : e.values[j].coded
        /\ \A j \in DOMAIN e.values : Len(e.values[j].pieces) = 1
        => e.dn \in DOMAIN directory
=============================================================================
