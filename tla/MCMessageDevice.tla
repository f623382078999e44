-------------------------- MODULE MCMessageDevice --------------------------
(***************************************************************************)
(* The lines of a board for TLC.                                           *)
(***************************************************************************)
EXTENDS MessageDevice

Look(ls, colon, prompt, single) ==
    [blank |-> FALSE, ls |-> ls, colon |-> colon, prompt |-> prompt,
     single |-> single]

Text == Look(FALSE, FALSE, FALSE, "none")
Blank == [Text EXCEPT !.blank = TRUE]
Path == Look(FALSE, TRUE, FALSE, "none")              \* "/mnt/spif:"
Prompt == Look(FALSE, FALSE, TRUE, "message")         \* "nsh> " with its ESC
LsPrompt == Look(TRUE, FALSE, TRUE, "message")        \* the same with "ls"
Word == Look(TRUE, FALSE, FALSE, "none")              \* "false"
BarePrompt == Look(FALSE, FALSE, TRUE, "error")       \* "nsh> ", no ESC

AllLooks == {Text, Blank, Path, Prompt, LsPrompt, Word, BarePrompt}
=============================================================================
