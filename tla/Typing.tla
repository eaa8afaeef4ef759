-------------------------------- MODULE Typing --------------------------------
(***************************************************************************)
(* The decoder of Keyboard under a physical keyboard, which is external: a *)
(* key that is pressed, held down (and so repeated) or released sends its  *)
(* make or break code as one byte, or as 0xe0 and one byte.  A key is      *)
(* named by its make code.  The bytes wait in the keyboard until the       *)
(* interrupt handler reads them one at a time.                             *)
(***************************************************************************)
EXTENDS Keyboard, Sequences, FiniteSets

CONSTANTS
  Key,          \* the keys in use, as make codes
  MAX_EVENTS    \* bound on the number of presses and releases

\* No key has the make code 0x60: its break code would be 0xe0.
ASSUME TypingAssumption ==
  /\ Key \subseteq ((1 .. 127) \ {\h60}) \cup (\hE001 .. \hE07F)
  /\ MAX_EVENTS \in Nat

VARIABLES
  kbd,      \* the static variables of keyboard.c
  wire,     \* bytes sent and not yet read
  out,      \* the characters the handler has passed to ioq_putchar
  held,     \* the keys that are down
  events    \* what the keys did: <<key, TRUE>> a press, <<key, FALSE>> a release

typingVars == <<kbd, wire, out, held, events>>

TypingTypeOK ==
  /\ kbd \in KeyboardState
  /\ wire \in Seq(UINT8)
  /\ out \in Seq(Char)
  /\ held \subseteq Key
  /\ events \in Seq(Key \X BOOLEAN)

TypingInit ==
  /\ kbd = keyboard_init
  /\ wire = << >>
  /\ out = << >>
  /\ held = {}
  /\ events = << >>

\* The bytes of a key going down or up.
Low(k, down) == (k % 256) + (IF down THEN 0 ELSE 128)
Extended(k) == k >= \hE000
Bytes(k, down) ==
  IF Extended(k) THEN <<\hE0, Low(k, down)>> ELSE <<Low(k, down)>>

Event(k, down) ==
  /\ Len(events) < MAX_EVENTS
  /\ wire' = wire \o Bytes(k, down)
  /\ events' = Append(events, <<k, down>>)
  /\ UNCHANGED <<kbd, out>>

Press(k) == Event(k, TRUE) /\ held' = held \cup {k}

Release(k) == k \in held /\ Event(k, FALSE) /\ held' = held \ {k}

KeyIntr ==
  /\ wire # << >>
  /\ LET r == intr_keyboard_handler(kbd, Head(wire))
     IN  /\ kbd' = r.k
         /\ out' = IF r.char = NO_CHAR THEN out ELSE Append(out, r.char)
  /\ wire' = Tail(wire)
  /\ UNCHANGED <<held, events>>

TypingNext == (\E k \in Key : Press(k) \/ Release(k)) \/ KeyIntr

TypingSpec == TypingInit /\ [][TypingNext]_typingVars

-----------------------------------------------------------------------------
(* What a keyboard does, in terms of keys                                  *)

Ctrl  == {CTRL_LEFT_MAKE, CTRL_RIGHT_MAKE}
Alt   == {ALT_LEFT_MAKE, ALT_RIGHT_MAKE}
Shift == {SHIFT_LEFT_MAKE, SHIFT_RIGHT_MAKE}
Modifier == Ctrl \cup Alt \cup Shift \cup {CAPS_LOCK_MAKE}

\* The keys that are down after the first n events.
Down(n) ==
  {k \in Key : \E i \in 1 .. n : /\ events[i] = <<k, TRUE>>
                                 /\ \A j \in i + 1 .. n : events[j][1] # k}

\* Among the first n events, the last one of these keys is a release.
LetGo(n, keys) ==
  \E i \in 1 .. n : /\ events[i][1] \in keys /\ ~events[i][2]
                    /\ \A j \in i + 1 .. n : events[j][1] \notin keys

\* Among the first n events are an odd number of releases of caps lock.
CapsOn(n) ==
  Cardinality({i \in 1 .. n : events[i] = <<CAPS_LOCK_MAKE, FALSE>>}) % 2 = 1

\* Those of the first n events that print, and what an event prints: in upper
\* case if caps lock is on or a shift key is down, except after the release of
\* the other shift key (see StatusFollowsKeys).
Printing(n) ==
  {i \in 1 .. n : /\ events[i][2] /\ events[i][1] \notin Modifier
                 /\ events[i][1] % 256 <= KEYMAP_MAX_INDEX}
Shifted(n) == Down(n) \cap Shift # {} /\ ~LetGo(n, Shift)
CharOf(i) == keymap(events[i][1] % 256, Shifted(i - 1) \/ CapsOn(i - 1))

\* Once all bytes are read, no prefix is pending, caps lock is as its releases
\* left it, and the flag of two keys says whether one of them is down, with one
\* exception.  The two keys share the flag, so a release of one clears it though
\* the other is still down (keyboard.c:98-116); it comes back with the next
\* press or repeat.  So a flag is never set without a key that is down, and is
\* clear under one exactly when the last thing the two did was a release.
StatusFollowsKeys ==
  wire = << >> =>
    /\ ~kbd.ext_scan_code
    /\ kbd.ctrl_status <=> held \cap Ctrl # {} /\ ~LetGo(Len(events), Ctrl)
    /\ kbd.alt_status <=> held \cap Alt # {} /\ ~LetGo(Len(events), Alt)
    /\ kbd.shift_status <=> held \cap Shift # {} /\ ~LetGo(Len(events), Shift)
    /\ kbd.caps_lock_status <=> CapsOn(Len(events))

\* out is what the first n events print, in their order: each of them finds
\* its character at the place its rank gives it, and there are no others.
PrintedUpTo(n) ==
  /\ Len(out) = Cardinality(Printing(n))
  /\ \A i \in Printing(n) :
       out[Cardinality({j \in Printing(n) : j <= i})] = CharOf(i)

\* However far the handler lags behind, what it has put into the buffer is
\* what a beginning of the events prints, and what all of them print once it
\* catches up: each character in the case of the moment its key went down, as
\* the shift keys (one of two let go counts as both) and caps lock had it.
PrintsWhatWasTyped ==
  /\ \E n \in 0 .. Len(events) : PrintedUpTo(n)
  /\ wire = << >> => PrintedUpTo(Len(events))

=============================================================================
