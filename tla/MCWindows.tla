----------------------------- MODULE MCWindows ------------------------------
EXTENDS ModelDownloads, HotkeyBindings, SnippetStore, HistoryPanel, TLC

\* Right Option and P, each with no flags or with Command; Command-P is the system's.
MCCombos == [key : {"rightOption", "p"}, flags : {"none", "command"}]
MCDefaultCombo == [key |-> "rightOption", flags |-> "none"]
MCReserved == {[key |-> "p", flags |-> "command"]}

\* Tasks are created in any order and nothing tells them apart; nor do the taps on a row.
MCSymmetry == Permutations(Tasks) \cup Permutations(Loops)

\* The windows share no state: an execution is one of one of them.
VARIABLE window

MCInit ==
  /\ Init /\ BindingsInit /\ SnippetInit /\ HistoryInit
  /\ window \in {"models", "hotkeys", "snippets", "history"}
  /\ window # "models" => disk = {} /\ activeModelID = NoModel
  /\ window # "snippets" => file = {}

\* Rows are tapped only in executions with one entry: two countdowns meet on the row of one.
OneEntryCounts == \A t \in Loops : loop'[t].at = "unused" \/ \A e, f \in Entries : persisted'[e] # "none" /\ persisted'[f] # "none" => e = f

MCNext ==
  \/ window = "models" /\ Next /\ UNCHANGED <<bindingVars, snippetVars, historyPanelVars, window>>
  \/ window = "hotkeys" /\ BindingsNext /\ UNCHANGED <<vars, snippetVars, historyPanelVars, window>>
  \/ window = "snippets" /\ SnippetNext /\ UNCHANGED <<vars, bindingVars, historyPanelVars, window>>
  \/ window = "history" /\ HistoryNext /\ OneEntryCounts /\ UNCHANGED <<vars, bindingVars, snippetVars, window>>

MCSpec == MCInit /\ [][MCNext]_<<vars, bindingVars, snippetVars, historyPanelVars, window>>
=============================================================================
