-------------------------------- MODULE MCLib --------------------------------
(* Model checking of the parts that call no other and share no state: the  *)
(* linked lists, the screen, the checksum, the conversions of text, the    *)
(* keyboard driver, the memory manager and the blocks' owners.  One of     *)
(* them is at work in a behaviour.                                         *)
EXTENDS List, Screen, Checksum, Text, Keyboard, Memory, Buffers

VARIABLE part       \* the one at work

\* A dot, a letter, and the numbers 0, 255 and 256.
MCPieces == {<<46>>, <<97>>, <<48>>, <<50, 53, 53>>, <<50, 53, 54>>}

\* Three scan codes of the table, one of them without a character; the fourth of
\* ScanCodes is a release.
MCKeytable == [c \in 0 .. 2 |-> c]

libvars == <<part, listvars, screenvars, sumvars, textvars, keyvars, vars, bufvars>>

LibInit ==
    /\ part \in {"list", "screen", "checksum", "text", "keyboard", "memory", "buffers"}
    /\ ListInit /\ ScreenInit /\ ChecksumInit /\ TextInit
    /\ KeyboardInit /\ MemInit /\ BuffersInit
    /\ part # "checksum" => data = << >>

Others(name, states) == part = name /\ UNCHANGED <<part, states>>

LibNext ==
    \/ /\ ListNext
       /\ Others("list", <<screenvars, sumvars, textvars, keyvars, vars, bufvars>>)
    \/ /\ ScreenNext
       /\ Others("screen", <<listvars, sumvars, textvars, keyvars, vars, bufvars>>)
    \/ /\ ChecksumNext
       /\ Others("checksum", <<listvars, screenvars, textvars, keyvars, vars, bufvars>>)
    \/ /\ TextNext
       /\ Others("text", <<listvars, screenvars, sumvars, keyvars, vars, bufvars>>)
    \/ /\ KeyboardNext
       /\ Others("keyboard", <<listvars, screenvars, sumvars, textvars, vars, bufvars>>)
    \/ /\ MemNext
       /\ Others("memory", <<listvars, screenvars, sumvars, textvars, keyvars, bufvars>>)
    \/ /\ BuffersNext
       /\ Others("buffers", <<listvars, screenvars, sumvars, textvars, keyvars, vars>>)

\* The fairness is Keyboard's.
LibSpec == LibInit /\ [][LibNext]_libvars /\ WF_libvars(part = "keyboard" /\ LibNext /\ KeyGetcWoken)
=============================================================================
