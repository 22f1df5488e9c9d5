------------------------------- MODULE Input --------------------------------
(* The way of a key: the PS/2 keyboard's interrupt handler                  *)
(* (src/arch/x86_64/mod/core/ps2/kb.cpp), key_press() and key_release()     *)
(* (src/dev/input.cpp), the handle's buffer, the tty_loop() thread, and the *)
(* input buffer of the terminal that programs read (src/dev/tty.cpp).       *)
(* The buffers are first-in first-out queues of whole events and of         *)
(* characters, which is what CircularBuffer implements.                     *)
EXTENDS Integers, Sequences, SequencesExt, FiniteSets

CONSTANTS InNormal, InExtra,   \* byte |-> key code, "none" for a byte without one
          InLetters,           \* key codes between KEY_A and KEY_Z
          InHandleSize, InTtySize,
          InMaxEvents          \* bound: keys pressed and released

VARIABLES inReleased, inExtra, \* the static variables of kb_irq()
          inPressed, inCount,  \* pressed[], and shift, ctrl, alt, altgr
          inNumLock, inCapsLock, inLeds,
          inHandle, inTty,     \* the buffers
          inBytes,             \* bytes the keyboard has still to deliver
          inDown,              \* the keys that are held down, in truth
          inCaps,              \* whether caps lock should be on
          inTyped,             \* what has been typed, in truth
          inGot,               \* what programs have read
          inDropped,           \* whether a full buffer has cost an event
          inEvents

inVars == <<inReleased, inExtra, inPressed, inCount, inNumLock, inCapsLock, inLeds, inHandle, inTty,
            inBytes, inDown, inCaps, inTyped, inGot, inDropped, inEvents>>
inKernel == <<inReleased, inExtra, inPressed, inCount, inNumLock, inCapsLock, inLeds, inHandle>>
inWorld == <<inDown, inCaps, inTyped, inEvents>>

Scans == ({FALSE} \X DOMAIN InNormal) \cup ({TRUE} \X DOMAIN InExtra)
CodeOf(scan) == LET table == IF scan[1] THEN InExtra ELSE InNormal
                IN  IF scan[2] \in DOMAIN table THEN table[scan[2]] ELSE "none"

\* The counter a key changes.
ModifierOf(code) ==
    CASE code \in {"lshift", "rshift"} -> "shift"
      [] code \in {"lctrl", "rctrl"} -> "ctrl"
      [] code = "lalt" -> "alt"
      [] code = "ralt" -> "altgr"
      [] OTHER -> "none"
Modifiers == {"shift", "ctrl", "alt", "altgr"}

\* get_mod()
GetMod == {m \in Modifiers : inCount[m] # 0}
          \cup (IF inNumLock THEN {"numlock"} ELSE {}) \cup (IF inCapsLock THEN {"capslock"} ELSE {})

\* translate() with the default keymap: a letter has a small and a capital
\* form, nothing under AltGr or Ctrl, and the other keys have no character.
Translate(event) ==
    CASE event.keycode \notin InLetters -> "none"
      [] "altgr" \in event.mod \/ "ctrl" \in event.mod -> "none"
      [] ("shift" \in event.mod) # ("capslock" \in event.mod) -> "capital"
      [] OTHER -> "small"

\* What keyPress() writes: a control character for a letter with Ctrl, else
\* the key's character.
Char(event) ==
    <<event.keycode, IF "ctrl" \in event.mod /\ event.keycode \in InLetters THEN "control" ELSE Translate(event)>>

----------------------------------------------------------------------------
(* kb_irq(), key_press(), key_release()                                     *)

\* Handle::write(): the whole event, or nothing.
HandleWrite(event) ==
    IF Len(inHandle) < InHandleSize
    THEN inHandle' = Append(inHandle, event) /\ UNCHANGED inDropped
    ELSE inDropped' = TRUE /\ UNCHANGED inHandle

\* update_leds(), when a lock has changed.
UpdateLeds(locks) == inLeds' = IF locks THEN <<inNumLock', inCapsLock'>> ELSE inLeds

\* The event has the modifiers of before the key; a key that is pressed
\* already changes none of them.
KeyPress(code) ==
    LET fresh == code \notin inPressed
    IN  /\ HandleWrite([keycode |-> code, mod |-> GetMod, release |-> FALSE])
        /\ inPressed' = inPressed \cup {code}
        /\ inCount' = [m \in Modifiers |-> inCount[m] + (IF fresh /\ m = ModifierOf(code) THEN 1 ELSE 0)]
        /\ inNumLock' = (inNumLock # (fresh /\ code = "numlock"))
        /\ inCapsLock' = (inCapsLock # (fresh /\ code = "capslock"))
        /\ UpdateLeds(fresh /\ code \in {"numlock", "capslock"})

KeyRelease(code) ==
    LET held == code \in inPressed
    IN  /\ HandleWrite([keycode |-> code, mod |-> GetMod, release |-> TRUE])
        /\ inPressed' = inPressed \ {code}
        /\ inCount' = [m \in Modifiers |-> inCount[m] - (IF held /\ m = ModifierOf(code) THEN 1 ELSE 0)]
        /\ UNCHANGED <<inNumLock, inCapsLock, inLeds>>

\* Both prefixes are for one byte, whether it has a key or not.
ResetPrefix(code) == inReleased' = FALSE /\ inExtra' = FALSE

KbIrq ==
    /\ inBytes # <<>>
    /\ inBytes' = Tail(inBytes)
    /\ LET byte == Head(inBytes)
           code == CodeOf(<<inExtra, byte>>)
       IN  CASE byte = "E0" -> inExtra' = TRUE
                               /\ UNCHANGED <<inReleased, inPressed, inCount, inNumLock, inCapsLock, inLeds, inHandle, inDropped>>
             [] byte = "F0" -> inReleased' = TRUE
                               /\ UNCHANGED <<inExtra, inPressed, inCount, inNumLock, inCapsLock, inLeds, inHandle, inDropped>>
             [] OTHER -> /\ ResetPrefix(code)
                         /\ IF code = "none"
                            THEN UNCHANGED <<inPressed, inCount, inNumLock, inCapsLock, inLeds, inHandle, inDropped>>
                            ELSE IF inReleased THEN KeyRelease(code) ELSE KeyPress(code)
    /\ UNCHANGED <<inTty, inGot, inWorld>>

----------------------------------------------------------------------------
(* tty_loop() with VTTY::keyPress(), and VTTY::read().                      *)

\* Mutant: the event is taken for a key press although it is a release.
WantedAny(event) == TRUE
\* tty_loop() passes over releases, keyPress() over keys without a character.
Wanted(event) == ~event.release

TtyLoop ==
    /\ inHandle # <<>>
    /\ LET event == Head(inHandle)
           c     == Char(event)
       IN  CASE ~Wanted(event) \/ c[2] = "none" -> UNCHANGED <<inTty, inDropped>>
             [] Len(inTty) >= InTtySize -> inDropped' = TRUE /\ UNCHANGED inTty
             [] OTHER -> inTty' = Append(inTty, c) /\ UNCHANGED inDropped
    /\ inHandle' = Tail(inHandle)
    /\ UNCHANGED <<inReleased, inExtra, inPressed, inCount, inNumLock, inCapsLock, inLeds, inBytes, inGot, inWorld>>

Read ==
    /\ inTty # <<>>
    /\ inGot' = Append(inGot, Head(inTty))
    /\ inTty' = Tail(inTty)
    /\ UNCHANGED <<inKernel, inBytes, inDropped, inWorld>>

----------------------------------------------------------------------------
(* The keyboard and the one who types, external: what is held, what that    *)
(* should mean, and the bytes that tell of it.                              *)

Held(down, m) == \E scan \in down : ModifierOf(CodeOf(scan)) = m
Meaning(scan) ==
    LET code == CodeOf(scan)
    IN  CASE code \notin InLetters -> <<>>
          [] Held(inDown, "ctrl") -> <<<<code, "control">>>>
          [] Held(inDown, "altgr") -> <<>>
          [] OTHER -> <<<<code, IF Held(inDown, "shift") # inCaps THEN "capital" ELSE "small">>>>

\* A key goes down, or one that is held repeats.
KeyDown(scan) ==
    /\ inDown' = inDown \cup {scan}
    /\ inCaps' = (inCaps # (CodeOf(scan) = "capslock" /\ scan \notin inDown))
    /\ inTyped' = inTyped \o Meaning(scan)
    /\ inBytes' = inBytes \o (IF scan[1] THEN <<"E0">> ELSE <<>>) \o <<scan[2]>>

KeyUp(scan) ==
    /\ scan \in inDown
    /\ inDown' = inDown \ {scan}
    /\ inBytes' = inBytes \o (IF scan[1] THEN <<"E0">> ELSE <<>>) \o <<"F0", scan[2]>>
    /\ UNCHANGED <<inCaps, inTyped>>

Typist ==
    /\ inEvents < InMaxEvents /\ inBytes = <<>>
    /\ inEvents' = inEvents + 1
    /\ \E scan \in Scans : KeyDown(scan) \/ KeyUp(scan)
    /\ UNCHANGED <<inKernel, inTty, inGot, inDropped>>

InInit ==
    /\ inReleased = FALSE /\ inExtra = FALSE
    /\ inPressed = {} /\ inCount = [m \in Modifiers |-> 0]
    /\ inNumLock = TRUE /\ inCapsLock = FALSE /\ inLeds = <<TRUE, FALSE>>
    /\ inHandle = <<>> /\ inTty = <<>> /\ inBytes = <<>>
    /\ inDown = {} /\ inCaps = FALSE /\ inTyped = <<>> /\ inGot = <<>>
    /\ inDropped = FALSE /\ inEvents = 0

InNext == KbIrq \/ TtyLoop \/ Read \/ Typist

----------------------------------------------------------------------------
(* Properties.                                                             *)

\* When the keyboard has said all, the counters are the numbers of modifier
\* keys held, whatever keys repeated or share a byte, and the lights show the
\* locks (input.cpp:54-81, 99-118).
ModifiersAreHeld ==
    inBytes = <<>> =>
        /\ \A m \in Modifiers : inCount[m] = Cardinality({s \in inDown : ModifierOf(CodeOf(s)) = m})
        /\ inCapsLock = inCaps /\ inLeds = <<inNumLock, inCapsLock>>

\* Programs read the characters typed, in order, each as the modifiers were
\* when its key went down, and all of them unless a buffer was full
\* (input.cpp:179-204, tty.cpp:25-41).
TypedIsRead ==
    LET waiting == SelectSeq(inHandle, LAMBDA e : ~e.release /\ Char(e)[2] # "none")
        all     == inGot \o inTty \o [i \in DOMAIN waiting |-> Char(waiting[i])]
    IN  /\ inBytes = <<>> /\ ~inDropped => all = inTyped
        /\ \E keep \in SUBSET DOMAIN inTyped :
             all = [i \in 1 .. Cardinality(keep) |->
                      inTyped[CHOOSE k \in keep : Cardinality({j \in keep : j <= k}) = i]]

\* What programs read is what was typed under the modifiers held.
KeysRead == ModifiersAreHeld /\ TypedIsRead
=============================================================================
