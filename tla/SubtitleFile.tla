---------------------------- MODULE SubtitleFile ----------------------------
(***************************************************************************)
(* Where the subtitles of the output come from (src/src/subtitles.c and    *)
(* ff2theora_output in src/src/ffmpeg2theora.c). The command line gives    *)
(* files, languages, categories and encodings in any order, each for "the  *)
(* next subtitles file"; then every file is read as SRT, line by line, and *)
(* the streams whose file yields no subtitle are taken out of the array    *)
(* while it is walked.                                                     *)
(*                                                                         *)
(* A line is what the parser can tell of it: empty, a number, a timing, or *)
(* other text, with or without bytes that are no UTF-8. Names given on the *)
(* command line are numbered, each kind for itself. Texts longer than the  *)
(* buffer and failing allocations are left out.                            *)
(***************************************************************************)
EXTENDS Integers, SequencesExt

CONSTANT Jobs   \* command lines, each with the files it names

Fields == {"filename", "language", "category", "encoding"}

Lines == [kind : {"blank", "number", "timing", "words", "bytes"}, t0 : Nat, t1 : Nat]

(* options: the fields given; "refused" is an encoding that is not known.      *)
(* files: the lines of the n-th file, as far as there is one. The rest is for  *)
(* SubtitleFeed: the start time, the number of embedded streams, which of      *)
(* audio and video there is, and how many rounds are looked at.                *)
Job == [options : Seq(Fields \cup {"refused"}), files : Seq(Seq(Lines)), ignore_non_utf8 : BOOLEAN,
        start : Nat, embedded : Nat, mode : {"av", "audio_only", "video_only"}, rounds : Nat]

ASSUME SubtitleFileAssumption == Jobs \subseteq Job

VARIABLES
    job,
    pc,        \* "options", "load", "read", and then those of SubtitleFeed
    used,      \* options taken so far
    streams,   \* kate_streams
    i,         \* the stream whose file is loaded
    line,      \* the line in str
    need,      \* "id", "timing" or "text"
    text,      \* the lines in text
    t0, t1

parser == <<i, line, need, text, t0, t1>>
fileVars == <<job, pc, used, streams, parser>>

-----------------------------------------------------------------------------
(* 0 denotes not set, stream_index -1 no embedded stream (add_kate_stream).    *)
NewStream == [filename |-> 0, language |-> 0, category |-> 0, encoding |-> 0,
              stream_index |-> -1, subtitles |-> << >>, subtitles_count |-> 0]

Init ==
    /\ job \in Jobs
    /\ pc = "options" /\ used = 0
    /\ streams = << >>
    /\ i = 1 /\ line = 1 /\ need = "id" /\ text = << >> /\ t0 = 0 /\ t1 = 0

(* How often this field was given before, plus one: the name it gets.          *)
Name(field) == Cardinality({n \in 1 .. used : job.options[n] = field}) + 1

(* Mutant: the last stream, if its field is not set.                           *)
NextFreeLast(field) ==
    IF streams # << >> /\ streams[Len(streams)][field] = 0 THEN Len(streams) ELSE Len(streams) + 1

(* The first stream of a file whose field is not set yet.                      *)
NextFree(field) ==
    LET free == {n \in DOMAIN streams : streams[n].stream_index = -1 /\ streams[n][field] = 0}
    IN  IF free = {} THEN Len(streams) + 1 ELSE Min(free)

(* set_subtitles_file, _language, _category and _encoding.                     *)
SetField ==
    /\ pc = "options" /\ used < Len(job.options)
    /\ LET field == job.options[used + 1]
       IN  /\ field # "refused"
           /\ LET n == NextFree(field)
                  longer == IF n > Len(streams) THEN Append(streams, NewStream) ELSE streams
              IN  streams' = [longer EXCEPT ![n][field] = Name(field)]
    /\ used' = used + 1
    /\ UNCHANGED <<job, pc, parser>>

(* report_unknown_subtitle_encoding, and that was it.                          *)
RefuseEncoding ==
    /\ pc = "options" /\ used < Len(job.options)
    /\ job.options[used + 1] = "refused"
    /\ used' = used + 1
    /\ UNCHANGED <<job, pc, streams, parser>>

(* add_subtitles_stream for every embedded stream, behind those of the files.  *)
AddEmbedded ==
    /\ pc = "options" /\ used = Len(job.options)
    /\ streams' = streams \o [k \in 1 .. job.embedded |->
           [NewStream EXCEPT !.stream_index = k, !.language = -k, !.category = -k]]
    /\ pc' = "load"
    /\ UNCHANGED <<job, used, parser>>

-----------------------------------------------------------------------------
(* The loop over the streams. *)

Embedded(ks) == ks.stream_index >= 0

Loading == pc = "load" /\ i <= Len(streams)

SkipEmbedded ==
    /\ Loading /\ Embedded(streams[i])
    /\ i' = i + 1
    /\ UNCHANGED <<job, pc, used, streams, line, need, text, t0, t1>>

OpenFile ==
    /\ Loading /\ ~Embedded(streams[i])
    /\ streams[i].filename \in DOMAIN job.files
    /\ line' = 1 /\ need' = "id"
    /\ pc' = "read"
    /\ UNCHANGED <<job, used, streams, i, text, t0, t1>>

(* Mutant: the index is not set back.                                          *)
IndexAfterRemovalSkips == i + 1

(* --i, before the ++i of the loop.                                            *)
IndexAfterRemoval == i

(* load_subtitles fails or finds nothing: the memmove takes the stream out.    *)
TakeOut ==
    /\ streams' = RemoveAt(streams, i)
    /\ i' = IndexAfterRemoval
    /\ pc' = "load"
    /\ UNCHANGED <<job, used, line, need, text, t0, t1>>

OpenFails ==
    /\ Loading /\ ~Embedded(streams[i])
    /\ streams[i].filename \notin DOMAIN job.files
    /\ TakeOut

-----------------------------------------------------------------------------
(* load_subtitles: one line after the other. *)

File == job.files[streams[i].filename]
Reading == pc = "read" /\ line <= Len(File)
Str == File[line].kind
NextLine == line' = line + 1 /\ UNCHANGED <<job, pc, used, i>>

(* Read as a number: a timing starts with one too.                             *)
IsId(kind) == kind \in {"number", "timing"}

IgnoreEmpty ==
    /\ Reading /\ need = "id" /\ Str = "blank"
    /\ NextLine
    /\ UNCHANGED <<streams, need, text, t0, t1>>

(* Mutant: the text of the record before stays.                                *)
TextAtIdKept == text

TextAtId == << >>

ReadId ==
    /\ Reading /\ need = "id" /\ IsId(Str)
    /\ need' = "timing" /\ text' = TextAtId
    /\ NextLine
    /\ UNCHANGED <<streams, t0, t1>>

ReadTiming ==
    /\ Reading /\ need = "timing" /\ Str = "timing"
    /\ need' = "text"
    /\ t0' = File[line].t0 /\ t1' = File[line].t1
    /\ NextLine
    /\ UNCHANGED <<streams, text>>

SyntaxError ==
    /\ Reading
    /\ \/ need = "id" /\ Str # "blank" /\ ~IsId(Str)
       \/ need = "timing" /\ Str # "timing"
    /\ TakeOut

ReadText ==
    /\ Reading /\ need = "text" /\ Str # "blank"
    /\ text' = Append(text, line)
    /\ NextLine
    /\ UNCHANGED <<streams, need, t0, t1>>

(* Bytes that are no UTF-8 are converted if the encoding is known (a single-   *)
(* byte one), and scrubbed out if they are to be ignored.                      *)
ValidUTF8(lines, ks) ==
    \/ ks.encoding # 0 \/ job.ignore_non_utf8
    \/ \A n \in ToSet(lines) : job.files[ks.filename][n].kind # "bytes"

(* store_subtitle: one that is not valid is only warned of.                    *)
Stored ==
    IF ValidUTF8(text, streams[i])
    THEN [streams EXCEPT ![i].subtitles = Append(@, [t0 |-> t0, t1 |-> t1, text |-> text])]
    ELSE streams

EndOfText ==
    /\ Reading /\ need = "text" /\ Str = "blank"
    /\ streams' = Stored
    /\ need' = "id"
    /\ NextLine
    /\ UNCHANGED <<text, t0, t1>>

(* "add any leftover text we've accumulated".                                  *)
Leftover == need = "text" /\ text # << >>

EndOfFile ==
    /\ pc = "read" /\ line > Len(File)
    /\ LET loaded == IF Leftover THEN Stored ELSE streams
       IN  IF loaded[i].subtitles # << >>
           THEN /\ streams' = loaded
                /\ i' = i + 1 /\ pc' = "load"
                /\ UNCHANGED <<job, used, line, need, text, t0, t1>>
           ELSE TakeOut

LoadNext ==
    \/ SetField \/ RefuseEncoding \/ AddEmbedded
    \/ SkipEmbedded \/ OpenFile \/ OpenFails
    \/ IgnoreEmpty \/ ReadId \/ ReadTiming \/ ReadText \/ EndOfText
    \/ SyntaxError \/ EndOfFile

-----------------------------------------------------------------------------
Subtitle == [t0 : Int, t1 : Int, text : Seq(Nat)]

KateStream == [filename : Nat, language : Int, category : Int, encoding : Nat,
               stream_index : {-1} \cup Nat, subtitles : Seq(Subtitle), subtitles_count : Nat]

Loaded == pc \notin {"options", "load", "read"} \/ (pc = "load" /\ i > Len(streams))

(* A stream of a file is kept only with subtitles, and none is counted that is *)
(* not there.                                                                  *)
FileTypeOK ==
    /\ job \in Job /\ used \in 0 .. Len(job.options)
    /\ streams \in Seq(KateStream)
    /\ i \in 1 .. Len(streams) + 1 /\ line \in Nat
    /\ need \in {"id", "timing", "text"} /\ text \in Seq(Nat) /\ t0 \in Nat /\ t1 \in Nat
    /\ \A n \in DOMAIN streams :
          /\ streams[n].subtitles_count <= Len(streams[n].subtitles)
          /\ Loaded /\ ~Embedded(streams[n]) => streams[n].subtitles # << >>

(* "sets the language of the next subtitles file": in whatever order files,    *)
(* languages, categories and encodings are given, the n-th of each belongs to  *)
(* the n-th file, and still does when streams were taken out of the array; no  *)
(* option of a file gets to an embedded stream.                                *)
Labelled ==
    \A n \in DOMAIN streams :
        LET ks == streams[n]
            Given(field) == Cardinality({m \in 1 .. used : job.options[m] = field})
        IN  IF Embedded(ks)
            THEN /\ ks.filename = 0 /\ ks.encoding = 0
                 /\ ks.language = -ks.stream_index /\ ks.category = -ks.stream_index
            ELSE ks.filename # 0 =>
                   \A field \in Fields : ks[field] = IF ks.filename <= Given(field) THEN ks.filename ELSE 0

(* SRT, without the parser: a record is a run of lines between empty ones, an  *)
(* id, a timing and the text. Only the last one may be cut short.              *)
Blank(lines, n) == n \in DOMAIN lines /\ lines[n].kind = "blank"

Starts(lines) == {n \in DOMAIN lines : ~Blank(lines, n) /\ (n = 1 \/ Blank(lines, n - 1))}

End(lines, n) == Min({m \in n .. Len(lines) : m = Len(lines) \/ Blank(lines, m + 1)})

WellFormed(lines) ==
    \A n \in Starts(lines) :
        /\ IsId(lines[n].kind)
        /\ n < Len(lines) => lines[n + 1].kind = "timing"

Text(lines, n) == [m \in 1 .. End(lines, n) - n - 1 |-> n + 1 + m]

Record(lines, n) == [t0 |-> lines[n + 1].t0, t1 |-> lines[n + 1].t1, text |-> Text(lines, n)]

(* Where the records start that are to be read.                                *)
Whole(lines, ks) == {n \in Starts(lines) : /\ n < End(lines, n)
                                           /\ End(lines, n) < Len(lines) \/ n + 1 < End(lines, n)
                                           /\ ValidUTF8(Text(lines, n), ks)}

(* The number of S up to which there are k, and the records that start at S.   *)
Nth(S, k) == Min({n \in S : Cardinality({m \in S : m <= n}) = k})

RecordsAt(lines, S) == [k \in 1 .. Cardinality(S) |-> Record(lines, Nth(S, k))]

Records(lines, ks) == RecordsAt(lines, Whole(lines, ks))

(* Every file that is well-formed and has a subtitle is in the output, in the  *)
(* order of the command line, with exactly its records, each with its own text *)
(* and times; no other file is.                                                *)
RecordsRead ==
    LET files == {n \in DOMAIN streams : ~Embedded(streams[n])}
        Given(field) == Cardinality({m \in DOMAIN job.options : job.options[m] = field})
        Encoding(f) == [NewStream EXCEPT !.filename = f,
                                         !.encoding = IF f <= Given("encoding") THEN f ELSE 0]
        good == {f \in 1 .. Given("filename") :
                    /\ f \in DOMAIN job.files /\ WellFormed(job.files[f])
                    /\ Records(job.files[f], Encoding(f)) # << >>}
    IN  Loaded =>
          /\ {streams[n].filename : n \in files} = good
          /\ \A m, n \in files : m < n => streams[m].filename < streams[n].filename
          /\ \A n \in files :
                streams[n].subtitles = Records(job.files[streams[n].filename], streams[n])
=============================================================================
