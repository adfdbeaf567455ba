---------------------------- MODULE SnippetStore ----------------------------
(* The snippet store: an actor whose calls never suspend, with a cache of the whole list and a file that is replaced as a  *)
(* whole. Reading and writing may fail; the settings save copies of snippets that they read earlier.                      *)
EXTENDS Integers, FiniteSets

CONSTANTS
  Triggers,  \* trigger phrases of three words and more
  MaxIds,    \* bound: snippets created
  MaxUses    \* bound: counted uses

ASSUME SnippetAssumption == MaxIds \in Nat \ {0} /\ MaxUses \in Nat

VARIABLES
  cachedSnippets,  \* the cache
  loadedOnce,      \* the cache is not nil
  file,            \* the snippets that the file holds; none when there is no file
  readable,        \* the file can be read and parsed
  nextId,          \* ids are never used twice
  shown,           \* the list the settings show, as of their last reload
  kept             \* history: the ids that were saved and not deleted, replaced or reset since

snippetVars == <<cachedSnippets, loadedOnce, file, readable, nextId, shown, kept>>

Snippet == [id : 1..MaxIds, trigger : Triggers, uses : 0..MaxUses]
Ids(snippets) == {s.id : s \in snippets}

SnippetInit ==
  /\ cachedSnippets = {}
  /\ loadedOnce = FALSE
  /\ file \in {{}} \cup {{[id |-> 1, trigger |-> t, uses |-> 0]} : t \in Triggers}
  /\ readable = TRUE
  /\ nextId = 2
  /\ shown = {}
  /\ kept = Ids(file)

\* What a call works on after loading what has not been loaded; the call throws when that fails.
MayLoad == loadedOnce \/ readable
Current == IF loadedOnce THEN cachedSnippets ELSE file
FillCache(snippets) == cachedSnippets' = snippets /\ loadedOnce' = TRUE

\* persist: the file is replaced and then the cache, or neither.
Persist(snippets) ==
  /\ file' = snippets
  /\ readable' = TRUE
  /\ FillCache(snippets)

\* The settings reload after what they do: loadAll reads the file again, whatever the cache holds.
loadAll ==
  /\ readable
  /\ FillCache(file)
  /\ shown' = file
  /\ UNCHANGED <<file, readable, nextId, kept>>

\* The pipeline reads the snippets for every transcription; a failure counts as no snippets.
allSnippets ==
  /\ ~loadedOnce
  /\ readable
  /\ FillCache(file)
  /\ UNCHANGED <<file, readable, nextId, shown, kept>>

\* A call that loads and then fails to write keeps what it has loaded.
SaveFails ==
  /\ readable
  /\ FillCache(Current)
  /\ UNCHANGED <<file, readable, nextId, shown, kept>>

FaultySave(s) ==
  /\ MayLoad
  /\ Persist((IF loadedOnce THEN {x \in cachedSnippets : x.id # s.id} ELSE {}) \cup {s})
  /\ nextId' = IF s.id = nextId THEN nextId + 1 ELSE nextId
  /\ kept' = kept \cup {s.id}
  /\ UNCHANGED shown

\* save: a new snippet, or one that takes the place of the snippet with its id.
Save(s) ==
  /\ MayLoad
  /\ Persist({x \in Current : x.id # s.id} \cup {s})
  /\ nextId' = IF s.id = nextId THEN nextId + 1 ELSE nextId
  /\ kept' = kept \cup {s.id}
  /\ UNCHANGED shown

\* The editor gives a new id; an edit or the switch of a row saves the copy that is shown, with its trigger or another.
SaveNew(t) == nextId <= MaxIds /\ Save([id |-> nextId, trigger |-> t, uses |-> 0])
SaveShown(s, t) == s \in shown /\ Save([s EXCEPT !.trigger = t])

Delete(id) ==
  /\ MayLoad
  /\ Persist({x \in Current : x.id # id})
  /\ kept' = kept \ {id}
  /\ UNCHANGED <<nextId, shown>>

\* After a snippet was expanded and injected; nothing happens when the store is not loaded.
incrementUseCount(s) ==
  /\ loadedOnce
  /\ s \in cachedSnippets
  /\ s.uses < MaxUses
  /\ Persist((cachedSnippets \ {s}) \cup {[s EXCEPT !.uses = @ + 1]})
  /\ UNCHANGED <<nextId, shown, kept>>

\* What a merge starts from: allSnippets gives nothing when the file cannot be read.
Existing == IF MayLoad THEN Current ELSE {}

\* An import of one snippet: it gets a new id, or is skipped when its trigger is there already; either way the list is saved.
ImportMerge(t) ==
  /\ nextId <= MaxIds
  /\ LET new == [id |-> nextId, trigger |-> t, uses |-> 0]
         added == IF \E x \in Existing : x.trigger = t THEN {} ELSE {new}
     IN /\ Persist(Existing \cup added)
        /\ kept' = (IF MayLoad THEN kept ELSE {}) \cup Ids(added)  \* all is lost in a file that cannot be read
  /\ nextId' = nextId + 1
  /\ UNCHANGED shown

ImportReplace(t) ==
  /\ nextId <= MaxIds
  /\ Persist({[id |-> nextId, trigger |-> t, uses |-> 0]})
  /\ nextId' = nextId + 1
  /\ kept' = {nextId}
  /\ UNCHANGED shown

Reset ==
  /\ file' = {}
  /\ readable' = TRUE
  /\ FillCache({})
  /\ kept' = {}
  /\ UNCHANGED <<nextId, shown>>

\* The disk: the file cannot be read for a while, or until somebody mends it.
FileBreaks == readable /\ file # {} /\ readable' = FALSE /\ UNCHANGED <<cachedSnippets, loadedOnce, file, nextId, shown, kept>>
FileMended == ~readable /\ readable' = TRUE /\ UNCHANGED <<cachedSnippets, loadedOnce, file, nextId, shown, kept>>

RelaunchStore == cachedSnippets' = {} /\ loadedOnce' = FALSE /\ shown' = {} /\ UNCHANGED <<file, readable, nextId, kept>>

SnippetNext ==
  \/ loadAll \/ allSnippets \/ SaveFails
  \/ \E t \in Triggers : SaveNew(t) \/ ImportMerge(t) \/ ImportReplace(t)
  \/ \E s \in shown, t \in Triggers : SaveShown(s, t)
  \/ \E id \in 1..MaxIds : Delete(id)
  \/ \E s \in cachedSnippets : incrementUseCount(s)
  \/ Reset
  \/ FileBreaks \/ FileMended \/ RelaunchStore

SnippetSpec == SnippetInit /\ [][SnippetNext]_snippetVars
-----------------------------------------------------------------------------
SnippetTypeOK ==
  /\ cachedSnippets \subseteq Snippet
  /\ loadedOnce \in BOOLEAN
  /\ file \subseteq Snippet
  /\ readable \in BOOLEAN
  /\ nextId \in 2..MaxIds + 1
  /\ shown \subseteq Snippet
  /\ kept \subseteq 1..MaxIds

\* The file holds exactly the snippets that were saved and not deleted since, whatever was loaded when and whichever reads
\* and writes failed, and the cache never differs from it; a merge over a file that cannot be read is counted as a deletion.
\* Code: SnippetStore ("the in-memory cache is the source of truth; the file is the durable copy").
KeepsWhatIsSaved ==
  /\ Ids(file) = kept
  /\ loadedOnce => cachedSnippets = file
=============================================================================
