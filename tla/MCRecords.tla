----------------------------- MODULE MCRecords ------------------------------
(***************************************************************************)
(* Small instances of what readers ask and are shown.  They share no state *)
(* in these models; the initial state picks one, which then runs alone.    *)
(***************************************************************************)
EXTENDS Chat, Owners, Today, Zodiac, TextGate, Backups, Answers, Memory, Migrations, TLC

CONSTANTS
    Running,       \* the services of this run
    e1, e2, e3,    \* requests and turns of the chat, charts
    x1, x2,        \* tabs, pages, runs of the indexing, orders
    y1, y2         \* accounts, reports

VARIABLE running   \* the service that runs

Symmetric == Permutations({e1, e2, e3})

\* Two aspects of the circle of 48 have an orb; houses of unequal size begin at the point of
\* Aries, or hold it.
MCOrb(a) == IF a \in {0, 24} THEN 1 ELSE 0
Turned(k) == [i \in 1 .. 4 |-> (<<0, 10, 20, 24>>[i] + k) % 48]
MCCuspLists == {Turned(k) : k \in {0, 26, 30, 40}}

\* The domain of the network has a rule on a house only.
Factor(d, f, n) == [domain |-> d, factor |-> f, needs |-> n]
MCRules ==
    {Factor("identity", "Sun", "sign"), Factor("identity", "ASC", "sign"),
     Factor("network", "Sun", "house")}
MCJobs ==
    {[kind |-> "section", domain |-> "identity"], [kind |-> "section", domain |-> "network"],
     [kind |-> "personal", domain |-> "personal_question"],
     [kind |-> "exploration", domain |-> "identity"], [kind |-> "transit", domain |-> "none"]}
MCAspects == {<<"Sun", "Uranus">>, <<"Uranus", "ASC">>}

\* Evidence that names a point or a pair, of the chart or not: Zeus is no body at all.
Item(f, h, t, r) == [form |-> f, head |-> h, tail |-> t, right |-> r]
MCItems ==
    {Item("sign", b, "", r) : b \in {"Sun", "Uranus", "ASC"}, r \in BOOLEAN}
    \union {Item("name", b, "", TRUE) : b \in {"Sun", "ASC", "Vesta", "Zeus"}}
    \union {Item(f, a[1], a[2], TRUE) : f \in {"aspect", "phrase"},
                                        a \in MCAspects \union {<<"Zeus", "Sun">>, <<"Sun", "Vesta">>}}
MCCompanions ==
    {Item("sign", "Sun", "", TRUE), Item("name", "Sun", "", TRUE),
     Item("aspect", "Sun", "Uranus", TRUE)}

\* A provider that cannot stream, then one that can.
MCRoute == <<"gateway", "pool">>

\* Short sections and long ones, with and without a place to break, an empty one.
Part(n, gaps) == [len |-> n, gaps |-> gaps]
MCTexts ==
    {<<Part(3, {}), Part(7, {3}), Part(2, {})>>, <<Part(0, {}), Part(4, {}), Part(2, {})>>}

\* As the first revision says, as 66bc97b51008 says, and all but one fact of either.
MCDrifts ==
    {{}, Stray, Aligned \union Stray} \union {Aligned \union {f} : f \in Stray}
       \union {Aligned \ {f} : f \in Aligned \union Stray}

-----------------------------------------------------------------------------

RecordsInit ==
    /\ running \in Running
    /\ Init /\ OwnersInit /\ TodayInit /\ ZodiacInit /\ TextInit
    /\ BackupsInit /\ AnswersInit /\ MemoryInit /\ MigrationsInit
    \* Those that do not run are at rest in one way.
    /\ running # "zodiac" => path = <<0>> /\ cusps = Turned(0)
    /\ running # "text" => /\ job.kind = "transit"
                           /\ ~chart.known /\ chart.aspects = {}
    /\ running # "migrations" => rev = 0

\* All but service s stay as they are.
OnlyIn(s) ==
    /\ IF s = "chat" THEN TRUE ELSE UNCHANGED vars
    /\ IF s = "owners" THEN TRUE ELSE UNCHANGED ownersVars
    /\ IF s = "today" THEN TRUE ELSE UNCHANGED todayVars
    /\ IF s = "zodiac" THEN TRUE ELSE UNCHANGED zodiacVars
    /\ IF s = "text" THEN TRUE ELSE UNCHANGED textVars
    /\ IF s = "backups" THEN TRUE ELSE UNCHANGED backupVars
    /\ IF s = "answers" THEN TRUE ELSE UNCHANGED answersVars
    /\ IF s = "memory" THEN TRUE ELSE UNCHANGED memoryVars
    /\ IF s = "migrations" THEN TRUE ELSE UNCHANGED migrationVars

RecordsNext ==
    /\ UNCHANGED running
    /\ \/ running = "chat" /\ Next /\ OnlyIn("chat")
       \/ running = "owners" /\ OwnersNext /\ OnlyIn("owners")
       \/ running = "today" /\ TodayNext /\ OnlyIn("today")
       \/ running = "zodiac" /\ ZodiacNext /\ OnlyIn("zodiac")
       \/ running = "text" /\ TextNext /\ OnlyIn("text")
       \/ running = "backups" /\ BackupsNext /\ OnlyIn("backups")
       \/ running = "answers" /\ AnswersNext /\ OnlyIn("answers")
       \/ running = "memory" /\ MemoryNext /\ OnlyIn("memory")
       \/ running = "migrations" /\ MigrationsNext /\ OnlyIn("migrations")

recordsVars ==
    <<running, vars, ownersVars, todayVars, zodiacVars, textVars, backupVars, answersVars,
      memoryVars, migrationVars>>

RecordsSpec == RecordsInit /\ [][RecordsNext]_recordsVars

\* The type of the service that runs.
RecordTypesOK ==
    /\ running = "chat" => TypeOK
    /\ running = "owners" => OwnersTypeOK
    /\ running = "today" => TodayTypeOK
    /\ running = "zodiac" => ZodiacTypeOK
    /\ running = "text" => TextTypeOK
    /\ running = "backups" => BackupsTypeOK
    /\ running = "answers" => AnswersTypeOK
    /\ running = "memory" => MemoryTypeOK
    /\ running = "migrations" => MigrationsTypeOK

\* SkyReadRight and GateIsFair, which look at whole circles and at all drafts, where their
\* own service runs.
SkyIsReadRight == running = "zodiac" => SkyReadRight
GatesAreFair == running = "text" => GateIsFair
=============================================================================
