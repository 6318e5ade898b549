------------------------------- MODULE Content -------------------------------
(***************************************************************************)
(* The articles an admin edits and their revisions, app/routes/            *)
(* cms_admin.py and app/models_cms.py.                                     *)
(*                                                                         *)
(* A handler reads the article when it begins, and a request that edits    *)
(* then awaits its body; its transaction ends with a write of the columns  *)
(* that differ from what it read.  One article with two columns, which     *)
(* stand for the text and for the rest.                                    *)
(***************************************************************************)
EXTENDS Integers, FiniteSets

CONSTANTS
    Editors,     \* requests of admins that may overlap
    Words,       \* values of a column
    MaxVersion   \* bound: edits of the article

ASSUME ContentAssumption == Words # {} /\ MaxVersion \in Nat \ {0}

Columns == {"body", "rest"}
Texts == [Columns -> Words]

VARIABLES
    article,     \* its row
    versions,    \* cms_versions: sets of [number, snapshot]
    edit,        \* edit[e]: what request e has read, and what it is to do
    \* History, read by the properties only:
    lives,       \* texts the article has had
    crossed      \* texts that were written while another request held an older one

contentVars == <<article, versions, edit, lives, crossed>>

Gone == [there |-> FALSE, version |-> 0]
There(n, text) == [there |-> TRUE, version |-> n, text |-> text]
Rows == {Gone} \union {There(n, t) : n \in 1 .. MaxVersion, t \in Texts}
Unread == [at |-> "idle"]

ContentTypeOK ==
    /\ article \in Rows
    /\ versions \subseteq [number : 1 .. MaxVersion, snapshot : Texts]
    /\ \A e \in Editors : edit[e] = Unread
                          \/ edit[e] \in [at : {"editing"}, number : 1 .. MaxVersion, read : Texts]
    /\ lives \subseteq Texts /\ crossed \subseteq Texts

ContentInit ==
    /\ article = Gone
    /\ versions = {}
    /\ edit = [e \in Editors |-> Unread]
    /\ lives = {} /\ crossed = {}

-----------------------------------------------------------------------------
\* cms_article_create: the first revision is the article itself.
CreateArticle(text) ==
    /\ article = Gone
    /\ versions = {}
    /\ article' = There(1, text)
    /\ versions' = {[number |-> 1, snapshot |-> text]}
    /\ lives' = {text}
    /\ UNCHANGED <<edit, crossed>>

\* A handler finds the article.
ReadArticle(e) ==
    /\ article # Gone
    /\ edit[e] = Unread
    /\ edit' = [edit EXCEPT ![e] = [at |-> "editing", number |-> article.version,
                                    read |-> article.text]]
    /\ UNCHANGED <<article, versions, lives, crossed>>

\* The columns that request e changes are written, the others keep what is in the row.
Flushed(e, text) ==
    [c \in Columns |-> IF text[c] # edit[e].read[c] THEN text[c] ELSE article.text[c]]

\* A fault: an edit of the other columns alone leaves no revision.
WriteUnkept(e, text) ==
    /\ article' = There(edit[e].number + 1, Flushed(e, text))
    /\ versions' = IF text["body"] = edit[e].read["body"] THEN versions
                   ELSE versions \union {[number |-> edit[e].number, snapshot |-> edit[e].read]}

\* The row takes the next number after the one read; the revision keeps what was read.
Write(e, text) ==
    /\ article' = There(edit[e].number + 1, Flushed(e, text))
    /\ versions' = versions \union {[number |-> edit[e].number, snapshot |-> edit[e].read]}

\* The end of a handler that sets the columns to text; without its row it raises.
Commit(e, text) ==
    /\ edit[e] # Unread
    /\ edit[e].number < MaxVersion
    /\ edit' = [edit EXCEPT ![e] = Unread]
    /\ IF article = Gone THEN UNCHANGED <<article, versions, lives, crossed>>
       ELSE /\ Write(e, text)
            /\ lives' = lives \union {Flushed(e, text)}
            /\ crossed' = IF \/ \E f \in Editors \ {e} : edit[f] # Unread
                             \/ edit[e].read # article.text
                          THEN crossed \union {article.text, Flushed(e, text)} ELSE crossed

\* cms_article_update
UpdateArticle(e) == \E text \in Texts : Commit(e, text)

\* cms_article_restore: any row with the number that is asked for.
RestoreArticle(e) == \E v \in versions : Commit(e, v.snapshot)

\* cms_article_delete stores no revision.
DeleteArticle ==
    /\ article # Gone
    /\ article' = Gone
    /\ UNCHANGED <<versions, edit, lives, crossed>>

ContentNext ==
    \/ \E text \in Texts : CreateArticle(text)
    \/ \E e \in Editors : ReadArticle(e) \/ UpdateArticle(e) \/ RestoreArticle(e)
    \/ DeleteArticle

ContentSpec == ContentInit /\ [][ContentNext]_contentVars

-----------------------------------------------------------------------------
Stored == {v.snapshot : v \in versions}

\* "Revision history: every mutation stores the previous state": while the article exists,
\* a text it once had is its text now, or in a revision, or was lost to an edit that
\* overlapped another.
NothingIsLost == article # Gone => lives \subseteq Stored \union {article.text} \union crossed
=============================================================================
