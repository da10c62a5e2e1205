----------------------------- MODULE MCKeyboard -----------------------------
(* Keyboard for TLC: what Shift and Alt make of a letter, of Up and of F2 and  *)
(* F3 (there are two consoles); and the codes of several bytes, one of them    *)
(* longer than the buffer, between locks and the keys they change.             *)
EXTENDS Keyboard

ModifierKeys ==
    {PlainKey(\h1E), PlainKey(\h2A), PlainKey(\h38), PlainKey(\h3C), PlainKey(\h3D),
     ExtKey(\h48)}

CapsKeys == {PlainKey(\h1E), PlainKey(\h3A), Pause}
PadKeys == {PlainKey(\h45), PlainKey(\h48), PrintScreen}

EachKeySet == {ModifierKeys, CapsKeys, PadKeys}
OnlyModifiers == {ModifierKeys}
=============================================================================
