------------------------------ MODULE MCKeyInput ------------------------------
(* Values for KeyInput's constants: an arrow key, the digits 1 and 5, the two
   keys a pasted number needs beside digits, and ON. *)
EXTENDS KeyInput, TLC

UP == 10
BTN_NEG == 25
BTN_5 == 36
MC_BTN_1 == 40
BTN_ON == 44
BTN_PERIOD == 46

MCButton == {UP, BTN_NEG, BTN_5, MC_BTN_1, BTN_ON, BTN_PERIOD}
MCBTN == (1 :> MC_BTN_1) @@ (5 :> BTN_5)
MCCode == UNION {{Press(b), Release(b)} : b \in MCButton}

(* buttons[].code: UP 0x71, NEG 0x43, 5 0x22, 1 0x13, PERIOD 0x02 *)
MCRow == {0, 1, 2, 4, 7}
MCPosition == (UP :> <<7, 1>>) @@ (BTN_NEG :> <<4, 3>>)
                @@ (BTN_5 :> <<2, 2>>) @@ (MC_BTN_1 :> <<1, 3>>)
                @@ (BTN_PERIOD :> <<0, 2>>)
MCRepeating == {<<7, 1>>}

AnyProgram == {"IN", "INTON", "INTOFF", "RSI", "RTI", "SHUTDN"}

(* keysym_to_button, for the host keys a run uses *)
KeysymUE == ("up" :> UP) @@ ("escape" :> BTN_ON)
KeysymE == "escape" :> BTN_ON
Keysym5 == "five" :> BTN_5
KeysymNone == <<>>

Number == {<<1, Point>>}
Five == {<<5>>}
==============================================================================
