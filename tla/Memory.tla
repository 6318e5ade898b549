------------------------------- MODULE Memory -------------------------------
(***************************************************************************)
(* What the chat remembers of a report: app/rag.py over the tables reports *)
(* and report_chunks.                                                      *)
(*                                                                         *)
(* When a report is done the worker cuts its text into overlapping windows *)
(* and stores them with their embeddings; the same can be started by hand. *)
(* It reads the report, works for a minute or more in a thread that        *)
(* outlives its time limit, and writes in the end.  Meanwhile the account  *)
(* may be deleted, old chunks dropped, the report be written again by a    *)
(* job that was delivered twice, or a second run be on its way.            *)
(***************************************************************************)
EXTENDS Integers, Sequences, FiniteSets

CONSTANTS
    Indexers,       \* runs of index_report at a time
    Books,          \* reports
    Texts,          \* what reports can say: sequences of sections
    Size, Overlap,  \* CHUNK_SIZE, CHUNK_OVERLAP
    MaxChunks,      \* MAX_CHUNKS_PER_REPORT
    TopK

\* A section is its length and where its spaces are.
ASSUME MemoryAssumption ==
    /\ IsFiniteSet(Indexers) /\ Indexers # {} /\ Books # {}
    /\ Texts \subseteq Seq([len : Nat, gaps : SUBSET Nat]) /\ Texts # {}
    /\ {Size, Overlap, MaxChunks, TopK} \subseteq Nat
    /\ 2 * Overlap <= Size /\ Size > 0 /\ MaxChunks > 0

VARIABLES
    book,      \* book[b]: reports.status, as far as it matters here
    old,       \* reports that are past the retention
    says,      \* says[b]: reports.sections
    batches,   \* batches[b]: the chunks of report b, as the runs have written them, and
               \* the text they were cut from
    work,      \* work[k]: what run k is at, and the text it has read
    told,      \* what the last search has returned, and of which report
    rewritten  \* reports that were done more than once; history

memoryVars == <<book, old, says, batches, work, told, rewritten>>

Said == Texts \union {<<>>}
Window == [sec : Nat, from : Int, to : Int]
Batch == [text : Said, chunks : Seq(Window)]
Work == [at : {"idle", "cutting", "writing"}, book : Books, text : Said, sec : Nat, from : Int,
         cut : Seq(Window)]

Idle == [at |-> "idle", book |-> CHOOSE b \in Books : TRUE, text |-> <<>>,
         sec |-> 1, from |-> 0, cut |-> <<>>]

MemoryTypeOK ==
    /\ book \in [Books -> {"open", "done", "gone"}]
    /\ old \subseteq Books
    /\ says \in [Books -> Said]
    /\ batches \in [Books -> Seq(Batch)]
    /\ work \in [Indexers -> Work]
    /\ told \in [book : Books, found : SUBSET [text : Said, piece : Window]]
    /\ rewritten \subseteq Books

MemoryInit ==
    /\ book = [b \in Books |-> "open"] /\ old = {}
    /\ says = [b \in Books |-> <<>>]
    /\ batches = [b \in Books |-> <<>>]
    /\ work = [k \in Indexers |-> Idle]
    /\ told = [book |-> Idle.book, found |-> {}]
    /\ rewritten = {}

-----------------------------------------------------------------------------
(* chunk_report_text                                                       *)

Section(k) == work[k].text[work[k].sec]

Lesser(x, y) == IF x < y THEN x ELSE y

\* "break at the last whitespace inside the window", if that is in its second half
End(s, from) ==
    LET end == Lesser(from + Size, s.len)
        late == {g \in s.gaps : g < end /\ g > from + Size \div 2}
    IN  IF end < s.len /\ late # {} THEN CHOOSE g \in late : \A h \in late : h <= g ELSE end

\* A fault: the overlap goes the other way.
Skipping(end) == end + Overlap

\* The window after one that ends here; a section that is at its end gets its last
\* characters again, until the report has all the chunks it may have.
Resume(end) == end - Overlap

NextSection(w) == [w EXCEPT !.sec = @ + 1, !.from = 0]
WithWindow(w, to) == [w EXCEPT !.cut = Append(@, [sec |-> w.sec, from |-> w.from, to |-> to])]

CutWhole(k) ==
    /\ Section(k).len <= Size
    /\ work' = [work EXCEPT ![k] = IF Section(k).len = 0 THEN NextSection(@)
                                   ELSE NextSection(WithWindow(@, Section(k).len))]

CutWindow(k) ==
    LET end == End(Section(k), work[k].from)
    IN  /\ Section(k).len > Size
        /\ work[k].from < Section(k).len /\ Len(work[k].cut) < MaxChunks
        /\ work' = [work EXCEPT ![k] = [WithWindow(@, end) EXCEPT !.from = Resume(end)]]

CutEnough(k) ==
    /\ Section(k).len > Size
    /\ work[k].from >= Section(k).len \/ Len(work[k].cut) >= MaxChunks
    /\ work' = [work EXCEPT ![k] = NextSection(@)]

\* One step of the loop
Cut(k) ==
    /\ work[k].at = "cutting" /\ work[k].sec <= Len(work[k].text)
    /\ CutWhole(k) \/ CutWindow(k) \/ CutEnough(k)
    /\ UNCHANGED <<book, old, says, batches, told, rewritten>>

-----------------------------------------------------------------------------
(* index_report                                                            *)

\* generate_report asks nobody whether the report is done: a job that is delivered twice, or
\* started again while it runs, writes it once more.
RunBook(b) ==
    /\ book[b] = "done"
    /\ book' = [book EXCEPT ![b] = "open"]
    /\ rewritten' = rewritten \union {b}
    /\ UNCHANGED <<old, says, batches, work, told>>

FinishBook(b, t, well) ==
    /\ book[b] = "open"
    /\ book' = [book EXCEPT ![b] = IF well THEN "done" ELSE "open"]
    /\ says' = [says EXCEPT ![b] = t]
    /\ UNCHANGED <<old, batches, work, told, rewritten>>

\* "already indexed" is asked first, in the transaction that writes in the end.
StartIndex(k, b) ==
    /\ work[k].at = "idle"
    /\ book[b] = "done" /\ batches[b] = <<>>
    /\ work' = [work EXCEPT ![k] = [Idle EXCEPT !.at = "cutting", !.book = b, !.text = says[b]]]
    /\ UNCHANGED <<book, old, says, batches, told, rewritten>>

\* All is cut; the embeddings are computed next.
Embed(k) ==
    LET kept == SubSeq(work[k].cut, 1, Lesser(Len(work[k].cut), MaxChunks))
    IN  /\ work[k].at = "cutting" /\ work[k].sec > Len(work[k].text)
        /\ work' = [work EXCEPT ![k] =
              IF work[k].cut = <<>> THEN Idle ELSE [work[k] EXCEPT !.at = "writing", !.cut = kept]]
        /\ UNCHANGED <<book, old, says, batches, told, rewritten>>

\* The foreign key refuses the chunks of a report that has been deleted meanwhile.
Write(k) ==
    LET b == work[k].book
    IN  /\ work[k].at = "writing"
        /\ batches' = IF book[b] = "gone" THEN batches
                      ELSE [batches EXCEPT ![b] = Append(@, [text |-> work[k].text, chunks |-> work[k].cut])]
        /\ work' = [work EXCEPT ![k] = Idle]
        /\ UNCHANGED <<book, old, says, told, rewritten>>

\* The model cannot be loaded, or the worker dies.  "RAG index skipped"
SkipIndex(k) ==
    /\ work[k].at # "idle"
    /\ work' = [work EXCEPT ![k] = Idle]
    /\ UNCHANGED <<book, old, says, batches, told, rewritten>>

-----------------------------------------------------------------------------

\* search_relevant: chunks of this report and of no other, the nearest ones
Found(b) ==
    UNION {{[text |-> batches[b][i].text, piece |-> batches[b][i].chunks[j]] :
               j \in DOMAIN batches[b][i].chunks} : i \in DOMAIN batches[b]}

Search(b) ==
    /\ book[b] # "gone"
    /\ \E found \in SUBSET Found(b) :
          /\ Cardinality(found) <= TopK
          /\ found = {} => batches[b] = <<>>
          /\ told' = [book |-> b, found |-> found]
    /\ UNCHANGED <<book, old, says, batches, work, rewritten>>

\* prune_old_chunks: "Retention", by the age of the report
Age(b) ==
    /\ old' = old \union {b}
    /\ UNCHANGED <<book, says, batches, work, told, rewritten>>

Prune ==
    /\ batches' = [b \in Books |-> IF b \in old THEN <<>> ELSE batches[b]]
    /\ UNCHANGED <<book, old, says, work, told, rewritten>>

\* account_delete: the chunks go first, then the report; a chunk that is written in between
\* makes the deletion fail as a whole.
EraseBook(b) ==
    /\ book[b] # "gone"
    /\ book' = [book EXCEPT ![b] = "gone"]
    /\ batches' = [batches EXCEPT ![b] = <<>>]
    /\ UNCHANGED <<old, says, work, told, rewritten>>

MemoryNext ==
    \/ \E k \in Indexers : \/ Cut(k) \/ Embed(k) \/ Write(k) \/ SkipIndex(k)
                           \/ \E b \in Books : StartIndex(k, b)
    \/ \E b \in Books : \/ RunBook(b) \/ Search(b) \/ Age(b) \/ EraseBook(b)
                        \/ \E t \in Texts, well \in BOOLEAN : FinishBook(b, t, well)
    \/ Prune

MemorySpec == MemoryInit /\ [][MemoryNext]_memoryVars

-----------------------------------------------------------------------------
(* Correctness.                                                            *)

\* Character x of section s is in one of these windows.
InSome(ws, s, x) == \E w \in ws : w.sec = s /\ w.from <= x /\ x < w.to

Before(batch, i) == {batch[j] : j \in 1 .. i - 1}

\* Whatever precedes window i in the text is in a window before it.
NoHole(t, batch, i) ==
    \A s \in 1 .. batch[i].sec :
       \A x \in 0 .. (IF s = batch[i].sec THEN batch[i].from ELSE t[s].len) - 1 :
          InSome(Before(batch, i), s, x)

Passage(t, w) ==
    w.sec \in DOMAIN t /\ 0 <= w.from /\ w.from < w.to /\ w.to <= t[w.sec].len /\ w.to - w.from <= Size

\* What the chunks of one run are.
WellCut(t, batch) ==
    /\ \A i \in DOMAIN batch : Passage(t, batch[i]) /\ NoHole(t, batch, i)
    /\ \/ Len(batch) = MaxChunks
       \/ /\ Len(batch) < MaxChunks
          /\ \A s \in DOMAIN t : \A x \in 0 .. t[s].len - 1 :
                InSome(Before(batch, Len(batch) + 1), s, x)

\* However runs, retention, the deletion of accounts and repeated jobs interleave:
\* 1. only a report that is there, and has been done, has chunks; "Idempotent per report",
\*    but for runs that overlap;
\* 2. the chunks that a run has written are pieces of the text it has read, of the size the
\*    model takes, and hold it from its beginning without a hole, all of it unless they are
\*    as many as a report may have;
\* 3. a search tells such pieces of the report asked about; they are what the report says,
\*    unless it was written again.
MemoryKept ==
    /\ \A b \in Books :
          /\ batches[b] # <<>> => book[b] = "done" \/ (book[b] = "open" /\ b \in rewritten)
          /\ Len(batches[b]) <= Cardinality(Indexers)
          /\ \A n \in DOMAIN batches[b] : WellCut(batches[b][n].text, batches[b][n].chunks)
    /\ \A f \in told.found : /\ Passage(f.text, f.piece)
                             /\ told.book \notin rewritten => f.text = says[told.book]
=============================================================================
