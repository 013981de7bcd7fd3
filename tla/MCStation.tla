----------------------------- MODULE MCStation ------------------------------
(***************************************************************************)
(* Small instances of Station.                                             *)
(***************************************************************************)
EXTENDS Station, TLC

CONSTANTS b1, b2

TwoBrowsers == {b1, b2}
Symmetry == Permutations(TwoBrowsers)   \* no property names a browser
TwoFolders == {"pos_drop", "share"}
Askers == {"phone"}
AllFaults == {"stop", "cancel", "storage", "share"}

\* The set questions only; a hosted model with a key; another one with the key
\* that is saved, and an address of its own.
SetOnly == [provider |-> "none", model |-> "", key |-> "keep", url |-> ""]
Hosted == [provider |-> "openai", model |-> "", key |-> "key", url |-> ""]
OtherHosted == [provider |-> "anthropic", model |-> "", key |-> "keep", url |-> "https"]
Local == [provider |-> "ollama", model |-> "", key |-> "keep", url |-> ""]
Texts == {"", "key", "keep", "https"}
Choices == {SetOnly, Hosted, OtherHosted}
LocalChoices == {Local}
=============================================================================
