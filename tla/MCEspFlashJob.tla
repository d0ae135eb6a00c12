--------------------------- MODULE MCEspFlashJob ---------------------------
(* Requests like sdcard/flash.json, with and without the RTOS images, with *)
(* an entry that does not parse, for the STM32 only, and with two parts    *)
(* that go to one place or overlap.                                        *)
EXTENDS EspFlashJob

Asks(o, e, s, p) == [once |-> o, esp |-> e, stm32 |-> s, parts |-> p]

Parts(o) == <<[file |-> Boot, offset |-> 0], [file |-> Default, offset |-> o]>>
TwoParts == Parts(2)

MCRequests ==
  {Asks("1", "1", "0", p) : p \in {<<>>, TwoParts, <<BadPart>> \o TwoParts,
                                   TwoParts \o <<BadPart>>}}
    \cup {Asks("1", "1", "0", Parts(o)) : o \in {0, 1}}
    \cup {Asks("1", "0", "1", <<>>)}
=============================================================================
