----------------------------- MODULE DeviceProofs -----------------------------
(***************************************************************************)
(* Proofs about the two devices a user meets.                              *)
(*                                                                         *)
(* Typing, for any keyboard of scan code set 1 and any number of events:   *)
(* KeysInv says that the bytes on the wire are the rest of what the keys   *)
(* did, and that statuses and output are those of what has been read.      *)
(*                                                                         *)
(* Screen, for any number of printers, any text and any size of screen     *)
(* that a uint16_t can address.  RangeInv holds whatever overlaps;         *)
(* SoloInv follows a put_char that runs alone through its port accesses;   *)
(* DrawIsPut compares its body with a terminal.                            *)
(***************************************************************************)
EXTENDS Screen, Typing, FiniteSetTheorems, TLAPS

-----------------------------------------------------------------------------
(* Scan codes                                                              *)

\* A code and its parts.
LEMMA Codes ==
  ASSUME NEW k \in Key, NEW down \in BOOLEAN
  PROVE  LET code == IF Extended(k) THEN \hE000 + Low(k, down) ELSE Low(k, down)
         IN  /\ k \in Nat /\ Low(k, down) \in UINT8 /\ code \in Nat
             /\ code # \hE0
             /\ break_code(code) <=> ~down
             /\ break_code2make_code(code) = k
             /\ down => code % 256 = k % 256
<1> USE DEF Extended
<1> DEFINE code == IF Extended(k) THEN \hE000 + Low(k, down) ELSE Low(k, down)
<1>3. SUFFICES /\ k \in Nat /\ Low(k, down) \in UINT8 /\ code \in Nat
               /\ code # \hE0
               /\ break_code(code) <=> ~down
               /\ break_code2make_code(code) = k
               /\ down => code % 256 = k % 256
  OBVIOUS
<1>1. CASE k \in 1 .. 127 /\ k # 96
  <2>1. k % 256 = k /\ ~(k >= \hE000)
    BY <1>1
  <2>2. Low(k, down) = (IF down THEN k ELSE k + 128) /\ code = Low(k, down)
    BY <1>1, <2>1 DEF Low
  <2> HIDE DEF code
  <2>3. CASE down
    <3>1. code = k /\ code \div 128 = 0
      BY <1>1, <2>2, <2>3
    <3> QED  BY <1>1, <2>1, <2>2, <2>3, <3>1 DEF break_code, break_code2make_code, UINT8
  <2>4. CASE ~down
    <3>1. code = k + 128 /\ code \div 128 = 1
      BY <1>1, <2>2, <2>4
    <3> QED  BY <1>1, <2>1, <2>2, <2>4, <3>1 DEF break_code, break_code2make_code, UINT8
  <2> QED  BY <2>3, <2>4
<1>2. CASE k \in \hE001 .. \hE07F
  <2>1. PICK low \in 1 .. 127 : k = 57344 + low
    <3>1. k - 57344 \in 1 .. 127 /\ k = 57344 + (k - 57344)
      BY <1>2
    <3> QED  BY <3>1
  <2>2. k % 256 = low /\ k >= \hE000
    BY <2>1
  <2>3. Low(k, down) = (IF down THEN low ELSE low + 128) /\ code = 57344 + Low(k, down)
    BY <2>1, <2>2 DEF Low
  <2>6. Low(k, down) = (IF down THEN low ELSE low + 128)
    BY <2>3
  <2> HIDE DEF code
  <2>4. CASE down
    <3>1. code = k /\ code \div 128 = 448 /\ code # 224
      BY <2>1, <2>3, <2>4
    <3>2. ~break_code(code)
      BY <3>1 DEF break_code
    <3>3. break_code2make_code(code) = k
      BY <3>1, <3>2 DEF break_code2make_code
    <3>4. Low(k, down) = low
      BY <2>4, <2>6, Zenon
    <3>5. k \in Nat /\ Low(k, down) \in UINT8 /\ code \in Nat /\ code % 256 = k % 256
      BY <2>1, <3>1, <3>4 DEF UINT8
    <3>6. code # 224
      BY <3>1
    <3> QED  BY <2>4, <3>2, <3>3, <3>5, <3>6, Zenon
  <2>5. CASE ~down
    <3>1. code = k + 128 /\ code \div 128 = 449 /\ code # 224
      BY <2>1, <2>3, <2>5
    <3>2. break_code(code)
      BY <3>1 DEF break_code
    <3>3. break_code2make_code(code) = k
      <4> HIDE DEF code
      <4>1. break_code2make_code(code) = code - 128
        BY <3>2, Zenon DEF break_code2make_code
      <4> QED  BY <2>1, <3>1, <4>1
    <3>4. k \in Nat /\ Low(k, down) \in UINT8 /\ code \in Nat
      BY <2>1, <2>3, <2>5, <3>1 DEF UINT8
    <3> QED  BY <2>5, <3>1, <3>2, <3>3, <3>4
  <2> QED  BY <2>4, <2>5
<1> QED  BY <1>1, <1>2, TypingAssumption

\* The state x with another value in one field.
SetField(x, f, b) == [x EXCEPT ![f] = b]
Status == {"ext_scan_code", "ctrl_status", "shift_status", "alt_status", "caps_lock_status"}

\* The statuses are Booleans.
LEMMA StatusTypes ==
  ASSUME NEW x \in KeyboardState
  PROVE  /\ x.ext_scan_code \in BOOLEAN /\ x.ctrl_status \in BOOLEAN
         /\ x.shift_status \in BOOLEAN /\ x.alt_status \in BOOLEAN
         /\ x.caps_lock_status \in BOOLEAN
BY DEF KeyboardState

\* The statuses are independent of each other.
LEMMA PutStatus ==
  ASSUME NEW x \in KeyboardState, NEW f \in Status, NEW b \in BOOLEAN
  PROVE  /\ SetField(x, f, b) \in KeyboardState
         /\ SetField(x, f, b)[f] = b
         /\ \A g \in Status \ {f} : SetField(x, f, b)[g] = x[g]
<1>1. SetField(x, f, b)[f] = b /\ \A g \in Status \ {f} : SetField(x, f, b)[g] = x[g]
  BY DEF SetField, KeyboardState, Status
<1>2. CASE f = "ext_scan_code"
  BY <1>1, <1>2 DEF SetField, KeyboardState
<1>3. CASE f = "ctrl_status"
  BY <1>1, <1>3 DEF SetField, KeyboardState
<1>4. CASE f = "shift_status"
  BY <1>1, <1>4 DEF SetField, KeyboardState
<1>5. CASE f = "alt_status"
  BY <1>1, <1>5 DEF SetField, KeyboardState
<1>6. CASE f = "caps_lock_status"
  BY <1>1, <1>6 DEF SetField, KeyboardState
<1> QED  BY <1>2, <1>3, <1>4, <1>5, <1>6 DEF Status

\* No key is a modifier of two kinds.
LEMMA Apart ==
  ASSUME NEW k
  PROVE  /\ k \in Ctrl => k \notin Alt \cup Shift \cup {CAPS_LOCK_MAKE} /\ k \in Modifier
         /\ k \in Alt => k \notin Ctrl \cup Shift \cup {CAPS_LOCK_MAKE} /\ k \in Modifier
         /\ k \in Shift => k \notin Ctrl \cup Alt \cup {CAPS_LOCK_MAKE} /\ k \in Modifier
         /\ k = CAPS_LOCK_MAKE => k \notin Ctrl \cup Alt \cup Shift /\ k \in Modifier
BY DEF Modifier, Ctrl, Alt, Shift, CTRL_LEFT_MAKE, CTRL_RIGHT_MAKE,
       ALT_LEFT_MAKE, ALT_RIGHT_MAKE, SHIFT_LEFT_MAKE, SHIFT_RIGHT_MAKE, CAPS_LOCK_MAKE

\* The state after the last byte of a key.
Moved(x, k, down) ==
  CASE k \in Ctrl  -> SetField(x, "ctrl_status", down)
    [] k \in Alt   -> SetField(x, "alt_status", down)
    [] k \in Shift -> SetField(x, "shift_status", down)
    [] k = CAPS_LOCK_MAKE /\ ~down -> SetField(x, "caps_lock_status", ~x.caps_lock_status)
    [] OTHER -> x

\* What ctrl_key_proc does for a key that goes up or down.
LEMMA CtrlProc ==
  ASSUME NEW x, NEW code, NEW down \in BOOLEAN, break_code(code) <=> ~down,
         NEW k, k = break_code2make_code(code)
  PROVE  /\ ctrl_key_proc(x, code).k = Moved(x, k, down)
         /\ ctrl_key_proc(x, code).ret <=> k \in Modifier
<1>1. (~break_code(code)) = down
  BY Zenon
<1>2. ctrl_key_proc(x, code) =
        CASE k \in Ctrl  -> [ret |-> TRUE, k |-> SetField(x, "ctrl_status", down)]
          [] k \in Alt   -> [ret |-> TRUE, k |-> SetField(x, "alt_status", down)]
          [] k \in Shift -> [ret |-> TRUE, k |-> SetField(x, "shift_status", down)]
          [] k = CAPS_LOCK_MAKE ->
               [ret |-> TRUE,
                k   |-> IF down THEN x ELSE SetField(x, "caps_lock_status", ~x.caps_lock_status)]
          [] OTHER -> [ret |-> FALSE, k |-> x]
  BY <1>1, Zenon DEF ctrl_key_proc, Ctrl, Alt, Shift, SetField
<1>3. CASE k \in Ctrl
  <2>1. ctrl_key_proc(x, code) = [ret |-> TRUE, k |-> SetField(x, "ctrl_status", down)]
    BY <1>2, <1>3, Apart, Zenon
  <2>2. Moved(x, k, down) = SetField(x, "ctrl_status", down) /\ k \in Modifier
    BY <1>3, Apart, Zenon DEF Moved
  <2> QED  BY <2>1, <2>2
<1>4. CASE k \in Alt
  <2>1. ctrl_key_proc(x, code) = [ret |-> TRUE, k |-> SetField(x, "alt_status", down)]
    BY <1>2, <1>4, Apart, Zenon
  <2>2. Moved(x, k, down) = SetField(x, "alt_status", down) /\ k \in Modifier
    BY <1>4, Apart, Zenon DEF Moved
  <2> QED  BY <2>1, <2>2
<1>5. CASE k \in Shift
  <2>1. ctrl_key_proc(x, code) = [ret |-> TRUE, k |-> SetField(x, "shift_status", down)]
    BY <1>2, <1>5, Apart, Zenon
  <2>2. Moved(x, k, down) = SetField(x, "shift_status", down) /\ k \in Modifier
    BY <1>5, Apart, Zenon DEF Moved
  <2> QED  BY <2>1, <2>2
<1>6. CASE k = CAPS_LOCK_MAKE
  <2>1. ctrl_key_proc(x, code) =
          [ret |-> TRUE,
           k   |-> IF down THEN x ELSE SetField(x, "caps_lock_status", ~x.caps_lock_status)]
    BY <1>2, <1>6, Apart, Zenon
  <2>2. /\ Moved(x, k, down) = IF down THEN x ELSE SetField(x, "caps_lock_status", ~x.caps_lock_status)
        /\ k \in Modifier
    BY <1>6, Apart, Zenon DEF Moved
  <2>3. PICK y : y = IF down THEN x ELSE SetField(x, "caps_lock_status", ~x.caps_lock_status)
    OBVIOUS
  <2>4. ctrl_key_proc(x, code) = [ret |-> TRUE, k |-> y] /\ Moved(x, k, down) = y
    BY <2>1, <2>2, <2>3, Zenon
  <2> QED  BY <2>2, <2>4
<1>7. CASE k \notin Modifier
  <2>1. k \notin Ctrl /\ k \notin Alt /\ k \notin Shift /\ k # CAPS_LOCK_MAKE
    BY <1>7 DEF Modifier
  <2>2. ctrl_key_proc(x, code) = [ret |-> FALSE, k |-> x]
    BY <1>2, <2>1, Zenon
  <2>3. Moved(x, k, down) = x
    BY <2>1, Zenon DEF Moved
  <2> QED  BY <1>7, <2>2, <2>3
<1> QED  BY <1>3, <1>4, <1>5, <1>6, <1>7 DEF Modifier

\* The fields of that state.
LEMMA MovedIs ==
  ASSUME NEW x \in KeyboardState, NEW k, NEW down \in BOOLEAN
  PROVE  /\ Moved(x, k, down) \in KeyboardState
         /\ Moved(x, k, down).ext_scan_code = x.ext_scan_code
         /\ Moved(x, k, down).ctrl_status = IF k \in Ctrl THEN down ELSE x.ctrl_status
         /\ Moved(x, k, down).alt_status = IF k \in Alt THEN down ELSE x.alt_status
         /\ Moved(x, k, down).shift_status = IF k \in Shift THEN down ELSE x.shift_status
         /\ Moved(x, k, down).caps_lock_status =
              IF k = CAPS_LOCK_MAKE /\ ~down THEN ~x.caps_lock_status ELSE x.caps_lock_status
<1>1. CASE k \in Ctrl
  <2>1. Moved(x, k, down) = SetField(x, "ctrl_status", down)
    BY <1>1, Apart, Zenon DEF Moved
  <2>2. k \notin Alt /\ k \notin Shift /\ k # CAPS_LOCK_MAKE
    BY <1>1, Apart
  <2>3. "ctrl_status" \in Status
    BY DEF Status
  <2>4. /\ SetField(x, "ctrl_status", down) \in KeyboardState
        /\ SetField(x, "ctrl_status", down)["ctrl_status"] = down
        /\ \A g \in Status \ {"ctrl_status"} : SetField(x, "ctrl_status", down)[g] = x[g]
    BY <2>3, PutStatus
  <2> QED  BY <1>1, <2>1, <2>2, <2>4 DEF Status
<1>2. CASE k \in Alt
  <2>1. Moved(x, k, down) = SetField(x, "alt_status", down)
    BY <1>2, Apart, Zenon DEF Moved
  <2>2. k \notin Ctrl /\ k \notin Shift /\ k # CAPS_LOCK_MAKE
    BY <1>2, Apart
  <2>3. "alt_status" \in Status
    BY DEF Status
  <2>4. /\ SetField(x, "alt_status", down) \in KeyboardState
        /\ SetField(x, "alt_status", down)["alt_status"] = down
        /\ \A g \in Status \ {"alt_status"} : SetField(x, "alt_status", down)[g] = x[g]
    BY <2>3, PutStatus
  <2> QED  BY <1>2, <2>1, <2>2, <2>4 DEF Status
<1>3. CASE k \in Shift
  <2>1. Moved(x, k, down) = SetField(x, "shift_status", down)
    BY <1>3, Apart, Zenon DEF Moved
  <2>2. k \notin Ctrl /\ k \notin Alt /\ k # CAPS_LOCK_MAKE
    BY <1>3, Apart
  <2>3. "shift_status" \in Status
    BY DEF Status
  <2>4. /\ SetField(x, "shift_status", down) \in KeyboardState
        /\ SetField(x, "shift_status", down)["shift_status"] = down
        /\ \A g \in Status \ {"shift_status"} : SetField(x, "shift_status", down)[g] = x[g]
    BY <2>3, PutStatus
  <2> QED  BY <1>3, <2>1, <2>2, <2>4 DEF Status
<1>4. CASE k = CAPS_LOCK_MAKE /\ ~down
  <2>1. PICK b \in BOOLEAN : b = ~x.caps_lock_status
    BY StatusTypes
  <2>2. Moved(x, k, down) = SetField(x, "caps_lock_status", b)
    BY <1>4, <2>1, Apart, Zenon DEF Moved
  <2>3. k \notin Ctrl /\ k \notin Alt /\ k \notin Shift
    BY <1>4, Apart
  <2>4. "caps_lock_status" \in Status
    BY DEF Status
  <2>5. /\ SetField(x, "caps_lock_status", b) \in KeyboardState
        /\ SetField(x, "caps_lock_status", b)["caps_lock_status"] = b
        /\ \A g \in Status \ {"caps_lock_status"} : SetField(x, "caps_lock_status", b)[g] = x[g]
    BY <2>4, PutStatus
  <2> QED  BY <1>4, <2>1, <2>2, <2>3, <2>5 DEF Status
<1>5. CASE k \notin Ctrl /\ k \notin Alt /\ k \notin Shift /\ ~(k = CAPS_LOCK_MAKE /\ ~down)
  <2>1. Moved(x, k, down) = x
    BY <1>5, Zenon DEF Moved
  <2> QED  BY <1>5, <2>1, Zenon
<1> QED  BY <1>1, <1>2, <1>3, <1>4, <1>5, Zenon

\* What r says after the last byte of a key: the status of its modifier, or
\* its character.
DecodesTo(r, kb, k, down) ==
  /\ r.k \in KeyboardState
  /\ r.k.ext_scan_code = FALSE
  /\ r.k.ctrl_status = IF k \in Ctrl THEN down ELSE kb.ctrl_status
  /\ r.k.alt_status = IF k \in Alt THEN down ELSE kb.alt_status
  /\ r.k.shift_status = IF k \in Shift THEN down ELSE kb.shift_status
  /\ r.k.caps_lock_status = IF k = CAPS_LOCK_MAKE /\ ~down
                            THEN ~kb.caps_lock_status ELSE kb.caps_lock_status
  /\ r.char = IF down /\ k \notin Modifier /\ k % 256 <= KEYMAP_MAX_INDEX
              THEN keymap(k % 256, kb.shift_status \/ kb.caps_lock_status)
              ELSE NO_CHAR

\* The handler takes the last byte of a key for what it is.
LEMMA Decode ==
  ASSUME NEW kb \in KeyboardState, NEW k \in Key, NEW down \in BOOLEAN,
         kb.ext_scan_code <=> Extended(k)
  PROVE  DecodesTo(intr_keyboard_handler(kb, Low(k, down)), kb, k, down)
<1>1. PICK low \in UINT8 : low = Low(k, down)
  BY Codes
<1>2. PICK code \in Nat :
        /\ code = IF Extended(k) THEN \hE000 + low ELSE low
        /\ code # \hE0
        /\ break_code(code) <=> ~down
        /\ break_code2make_code(code) = k
        /\ down => code % 256 = k % 256
  BY <1>1, Codes
<1>3. PICK kb1 : kb1 = SetField(kb, "ext_scan_code", FALSE)
  OBVIOUS
<1>4. scan_code_get(kb, low).code = code /\ scan_code_get(kb, low).k = kb1
  <2>1. ~kb.ext_scan_code => low # \hE0
    BY <1>2
  <2>2. code = IF kb.ext_scan_code THEN \hE000 + low ELSE low
    BY <1>2
  <2>3. (~kb.ext_scan_code /\ low = \hE0) = FALSE
    BY <2>1
  <2>4. [kb EXCEPT !.ext_scan_code = ~@ /\ low = \hE0] = kb1
    BY <1>3, <2>3, Zenon DEF SetField
  <2> QED  BY <2>2, <2>4 DEF scan_code_get
<1>5. PICK ctl : ctl = ctrl_key_proc(kb1, code)
  OBVIOUS
<1>6. PICK r : r = intr_keyboard_handler(kb, low)
  OBVIOUS
<1>7. r.k = ctl.k /\ r.char = IF ctl.ret THEN NO_CHAR ELSE normal_key_proc(ctl.k, code)
  <2>2. r = [k |-> ctl.k, char |-> IF ctl.ret THEN NO_CHAR ELSE normal_key_proc(ctl.k, code)]
    BY <1>2, <1>4, <1>5, <1>6 DEF intr_keyboard_handler
  <2> QED  BY <2>2
<1>8. /\ kb1 \in KeyboardState /\ kb1.ext_scan_code = FALSE
      /\ kb1.ctrl_status = kb.ctrl_status
      /\ kb1.alt_status = kb.alt_status /\ kb1.shift_status = kb.shift_status
      /\ kb1.caps_lock_status = kb.caps_lock_status
  <2>1. "ext_scan_code" \in Status
    BY DEF Status
  <2>2. /\ kb1 \in KeyboardState /\ kb1["ext_scan_code"] = FALSE
        /\ \A g \in Status \ {"ext_scan_code"} : kb1[g] = kb[g]
    <3>1. PICK b \in BOOLEAN : b = FALSE
      OBVIOUS
    <3>2. /\ SetField(kb, "ext_scan_code", b) \in KeyboardState
          /\ SetField(kb, "ext_scan_code", b)["ext_scan_code"] = b
          /\ \A g \in Status \ {"ext_scan_code"} : SetField(kb, "ext_scan_code", b)[g] = kb[g]
      BY <2>1, PutStatus
    <3> QED  BY <1>3, <3>1, <3>2
  <2> QED  BY <2>2 DEF Status
<1>9. r.k = Moved(kb1, k, down) /\ (ctl.ret <=> k \in Modifier)
  <2>1. (break_code(code) <=> ~down) /\ k = break_code2make_code(code)
    BY <1>2
  <2>2. ctl.k = Moved(kb1, k, down) /\ (ctl.ret <=> k \in Modifier)
    BY <1>5, <2>1, CtrlProc, Zenon
  <2> QED  BY <1>7, <2>2, Zenon
<1>10. /\ r.k \in KeyboardState
       /\ r.k.ext_scan_code = FALSE
       /\ r.k.ctrl_status = IF k \in Ctrl THEN down ELSE kb.ctrl_status
       /\ r.k.alt_status = IF k \in Alt THEN down ELSE kb.alt_status
       /\ r.k.shift_status = IF k \in Shift THEN down ELSE kb.shift_status
       /\ r.k.caps_lock_status = IF k = CAPS_LOCK_MAKE /\ ~down
                                 THEN ~kb.caps_lock_status ELSE kb.caps_lock_status
  <2>1. kb1 \in KeyboardState
    BY <1>8
  <2>2. /\ r.k \in KeyboardState
        /\ r.k.ext_scan_code = kb1.ext_scan_code
        /\ r.k.ctrl_status = IF k \in Ctrl THEN down ELSE kb1.ctrl_status
        /\ r.k.alt_status = IF k \in Alt THEN down ELSE kb1.alt_status
        /\ r.k.shift_status = IF k \in Shift THEN down ELSE kb1.shift_status
        /\ r.k.caps_lock_status = IF k = CAPS_LOCK_MAKE /\ ~down
                                  THEN ~kb1.caps_lock_status ELSE kb1.caps_lock_status
    BY <1>9, <2>1, MovedIs
  <2>3. kb1.ext_scan_code = FALSE
    BY <1>8
  <2>4. kb1.ctrl_status = kb.ctrl_status
    BY <1>8
  <2>5. kb1.alt_status = kb.alt_status
    BY <1>8
  <2>6. kb1.shift_status = kb.shift_status
    BY <1>8
  <2>7. kb1.caps_lock_status = kb.caps_lock_status
    BY <1>8
  <2> QED  BY <2>2, <2>3, <2>4, <2>5, <2>6, <2>7
<1>11. r.char = IF down /\ k \notin Modifier /\ k % 256 <= KEYMAP_MAX_INDEX
                THEN keymap(k % 256, kb.shift_status \/ kb.caps_lock_status)
                ELSE NO_CHAR
  <2>1. CASE k \in Modifier
    BY <1>7, <1>9, <2>1, Zenon
  <2>2. CASE ~down
    <3>1. break_code(code)
      BY <1>2, <2>2
    <3>2. normal_key_proc(ctl.k, code) = NO_CHAR
      BY <3>1, Zenon DEF normal_key_proc
    <3> QED  BY <1>7, <2>2, <3>2
  <2>3. CASE down /\ k \notin Modifier
    <3>1. k \notin Ctrl /\ k \notin Alt /\ k \notin Shift
      BY <2>3 DEF Modifier
    <3>2. ctl.k = kb1
      BY <1>7, <1>9, <2>3, <3>1, Zenon DEF Moved
    <3>3. k % 256 \in Nat /\ k % 256 = code % 256
      BY <1>2, <2>3
    <3>4. code % 256 > KEYMAP_MAX_INDEX <=> ~(k % 256 <= KEYMAP_MAX_INDEX)
      BY <3>3 DEF KEYMAP_MAX_INDEX
    <3>5. r.char = normal_key_proc(kb1, code)
      BY <1>7, <1>9, <2>3, <3>2, Zenon
    <3>6. kb1.shift_status = kb.shift_status /\ kb1.caps_lock_status = kb.caps_lock_status
      BY <1>8
    <3>7. ~break_code(code)
      BY <1>2, <2>3
    <3> QED  BY <2>3, <3>3, <3>4, <3>5, <3>6, <3>7, Zenon DEF normal_key_proc
  <2> QED  BY <2>1, <2>2, <2>3
<1> QED  BY <1>1, <1>6, <1>10, <1>11, Zenon DEF DecodesTo

-----------------------------------------------------------------------------
(* The invariant                                                           *)

\* The bytes of the events after the n-th wait in the keyboard, at[i] bytes
\* before those of event i; the first byte of event n + 1 may be read already.
Waiting(n, at) ==
  /\ at[n + 1] = IF kbd.ext_scan_code THEN -1 ELSE 0
  /\ at[Len(events) + 1] = Len(wire)
  /\ kbd.ext_scan_code => n < Len(events) /\ Extended(events[n + 1][1])
  /\ \A i, j \in n + 1 .. Len(events) + 1 : i < j => at[i] < at[j]
  /\ \A i \in n + 1 .. Len(events) :
       /\ at[i + 1] = at[i] + (IF Extended(events[i][1]) THEN 2 ELSE 1)
       /\ wire[at[i + 1]] = Low(events[i][1], events[i][2])
       /\ Extended(events[i][1]) /\ at[i] >= 0 => wire[at[i] + 1] = \hE0

\* Among the first n events, the last one of these keys is a press.
LastDown(n, keys) ==
  \E i \in 1 .. n : /\ events[i][1] \in keys /\ events[i][2]
                    /\ \A j \in i + 1 .. n : events[j][1] \notin keys

\* If there are any events of these keys, there is a last one.
HasLast(n, keys) ==
  \/ LastDown(n, keys) \/ LetGo(n, keys)
  \/ \A i \in 1 .. n : events[i][1] \notin keys

Pairs == {Ctrl, Alt, Shift}

\* The events so far have put down the keys that are down.
HeldInv ==
  /\ held = Down(Len(events))
  /\ \A n \in 0 .. Len(events) : \A keys \in Pairs : HasLast(n, keys)

\* Statuses and output are those of the first n events.
Decoded(n) ==
  /\ kbd.ctrl_status <=> LastDown(n, Ctrl)
  /\ kbd.alt_status <=> LastDown(n, Alt)
  /\ kbd.shift_status <=> LastDown(n, Shift)
  /\ kbd.caps_lock_status <=> CapsOn(n)
  /\ PrintedUpTo(n)

KeysInv ==
  /\ TypingTypeOK
  /\ HeldInv
  /\ \E n \in 0 .. Len(events) : \E at \in [Nat -> Int] : Waiting(n, at) /\ Decoded(n)

-----------------------------------------------------------------------------
(* One more event                                                          *)

\* The flag's rule in terms of keys: the last event of the keys is a press if
\* and only if one of them is down and none was let go since.
LEMMA LastDownIs ==
  ASSUME events \in Seq(Key \X BOOLEAN), NEW n \in Nat, n <= Len(events),
         NEW keys, HasLast(n, keys)
  PROVE  LastDown(n, keys) <=> Down(n) \cap keys # {} /\ ~LetGo(n, keys)
<1>1. \A i \in 1 .. n : /\ events[i] \in Key \X BOOLEAN
                        /\ events[i] = <<events[i][1], events[i][2]>>
  OBVIOUS
<1>2. ASSUME LastDown(n, keys) PROVE Down(n) \cap keys # {} /\ ~LetGo(n, keys)
  <2>1. PICK i \in 1 .. n : /\ events[i][1] \in keys /\ events[i][2]
                            /\ \A j \in i + 1 .. n : events[j][1] \notin keys
    BY <1>2, Zenon DEF LastDown
  <2>2. PICK k : k = events[i][1]
    OBVIOUS
  <2>3. k \in Key /\ events[i] = <<k, TRUE>>
    BY <1>1, <2>1, <2>2
  <2>4. \A j \in i + 1 .. n : events[j][1] # k
    BY <2>1, <2>2
  <2>5. k \in Down(n)
    BY <2>3, <2>4, Zenon DEF Down
  <2>6. ASSUME LetGo(n, keys) PROVE FALSE
    <3>1. PICK m \in 1 .. n : /\ events[m][1] \in keys /\ ~events[m][2]
                              /\ \A j \in m + 1 .. n : events[j][1] \notin keys
      BY <2>6, Zenon DEF LetGo
    <3>2. m = i \/ m \in i + 1 .. n \/ i \in m + 1 .. n
      OBVIOUS
    <3> QED  BY <2>1, <3>1, <3>2, Zenon
  <2> QED  BY <2>1, <2>2, <2>5, <2>6
<1>3. ASSUME Down(n) \cap keys # {}, ~LetGo(n, keys) PROVE LastDown(n, keys)
  <2>1. PICK k \in Down(n) : k \in keys
    BY <1>3
  <2>2. PICK i \in 1 .. n : events[i] = <<k, TRUE>>
    BY <2>1 DEF Down
  <2>3. events[i][1] \in keys
    BY <2>1, <2>2
  <2> QED  BY <1>3, <2>3, Zenon DEF HasLast
<1> QED  BY <1>2, <1>3, Zenon

\* Which press or release of a modifier came last.
LEMMA LastDownNext ==
  ASSUME NEW n \in Nat, NEW keys
  PROVE  /\ events[n + 1][1] \in keys => (LastDown(n + 1, keys) <=> events[n + 1][2])
         /\ events[n + 1][1] \notin keys => (LastDown(n + 1, keys) <=> LastDown(n, keys))
<1>1. 1 .. n + 1 = (1 .. n) \cup {n + 1}
  OBVIOUS
<1>2. \A i \in 1 .. n : i + 1 .. n + 1 = (i + 1 .. n) \cup {n + 1}
  OBVIOUS
<1>3. n + 1 + 1 .. n + 1 = {}
  OBVIOUS
<1>4. ASSUME events[n + 1][1] \in keys, LastDown(n + 1, keys) PROVE events[n + 1][2]
  <2>1. PICK i \in 1 .. n + 1 : /\ events[i][1] \in keys /\ events[i][2]
                                /\ \A j \in i + 1 .. n + 1 : events[j][1] \notin keys
    BY <1>4, Zenon DEF LastDown
  <2>2. i = n + 1
    BY <1>4, <2>1
  <2> QED  BY <2>1, <2>2
<1>5. ASSUME events[n + 1][1] \in keys, events[n + 1][2] PROVE LastDown(n + 1, keys)
  <2>1. \A j \in n + 1 + 1 .. n + 1 : events[j][1] \notin keys
    OBVIOUS
  <2>2. n + 1 \in 1 .. n + 1
    OBVIOUS
  <2> QED  BY <1>5, <2>1, <2>2, Zenon DEF LastDown
<1>6. ASSUME events[n + 1][1] \notin keys, LastDown(n + 1, keys) PROVE LastDown(n, keys)
  <2>1. PICK i \in 1 .. n + 1 : /\ events[i][1] \in keys /\ events[i][2]
                                /\ \A j \in i + 1 .. n + 1 : events[j][1] \notin keys
    BY <1>6, Zenon DEF LastDown
  <2>2. i \in 1 .. n
    BY <1>1, <1>6, <2>1
  <2>3. \A j \in i + 1 .. n : events[j][1] \notin keys
    BY <2>1, <2>2
  <2> QED  BY <2>1, <2>2, <2>3, Zenon DEF LastDown
<1>7. ASSUME events[n + 1][1] \notin keys, LastDown(n, keys) PROVE LastDown(n + 1, keys)
  <2>1. PICK i \in 1 .. n : /\ events[i][1] \in keys /\ events[i][2]
                            /\ \A j \in i + 1 .. n : events[j][1] \notin keys
    BY <1>7, Zenon DEF LastDown
  <2>2. i \in 1 .. n + 1
    OBVIOUS
  <2>3. \A j \in i + 1 .. n + 1 : events[j][1] \notin keys
    BY <1>2, <1>7, <2>1
  <2> QED  BY <2>1, <2>2, <2>3, Zenon DEF LastDown
<1> QED  BY <1>4, <1>5, <1>6, <1>7, Zenon

\* Caps lock changes with each release.
LEMMA CapsNext ==
  ASSUME NEW n \in Nat
  PROVE  /\ events[n + 1] = <<CAPS_LOCK_MAKE, FALSE>> => (CapsOn(n + 1) <=> ~CapsOn(n))
         /\ events[n + 1] # <<CAPS_LOCK_MAKE, FALSE>> => (CapsOn(n + 1) <=> CapsOn(n))
<1>0. PICK c : c = <<CAPS_LOCK_MAKE, FALSE>>
  OBVIOUS
<1> DEFINE Caps(m) == {i \in 1 .. m : events[i] = c}
<1>1. IsFiniteSet(Caps(n)) /\ Cardinality(Caps(n)) \in Nat
  <2>1. IsFiniteSet(1 .. n)
    BY FS_Interval
  <2>2. Caps(n) \subseteq 1 .. n
    OBVIOUS
  <2> QED  BY <2>1, <2>2, FS_Subset, FS_CardinalityType
<1>2. ASSUME events[n + 1] = c
      PROVE  Cardinality(Caps(n + 1)) = Cardinality(Caps(n)) + 1
  <2>1. Caps(n + 1) = Caps(n) \cup {n + 1} /\ n + 1 \notin Caps(n)
    BY <1>2
  <2> QED  BY <1>1, <2>1, FS_AddElement
<1>3. ASSUME events[n + 1] # c
      PROVE  Caps(n + 1) = Caps(n)
  BY <1>3
<1>4. \A x \in Nat : (x + 1) % 2 = 1 <=> ~(x % 2 = 1)
  OBVIOUS
<1>5. \A m \in Nat : CapsOn(m) <=> Cardinality(Caps(m)) % 2 = 1
  BY <1>0 DEF CapsOn
<1> HIDE DEF Caps
<1>6. n + 1 \in Nat
  OBVIOUS
<1> QED  BY <1>0, <1>1, <1>2, <1>3, <1>4, <1>5, <1>6

\* Whether an event prints.
Prints(i) ==
  /\ events[i][2] /\ events[i][1] \notin Modifier
  /\ events[i][1] % 256 <= KEYMAP_MAX_INDEX

\* The printing events and their ranks.
LEMMA PrintingNext ==
  ASSUME NEW n \in Nat
  PROVE  /\ IsFiniteSet(Printing(n)) /\ Cardinality(Printing(n)) \in Nat
         /\ ~Prints(n + 1) => Printing(n + 1) = Printing(n)
         /\ Prints(n + 1) =>
              /\ Cardinality(Printing(n + 1)) = Cardinality(Printing(n)) + 1
              /\ Printing(n + 1) = Printing(n) \cup {n + 1}
              /\ {j \in Printing(n + 1) : j <= n + 1} = Printing(n + 1)
              /\ \A i \in Printing(n) :
                   {j \in Printing(n + 1) : j <= i} = {j \in Printing(n) : j <= i}
         /\ \A i \in Printing(n) :
              Cardinality({j \in Printing(n) : j <= i}) \in 1 .. Cardinality(Printing(n))
<1>1. /\ Printing(n) \subseteq 1 .. n
      /\ ~Prints(n + 1) => Printing(n + 1) = Printing(n)
      /\ Prints(n + 1) => Printing(n + 1) = Printing(n) \cup {n + 1}
  BY DEF Printing, Prints
<1>2. IsFiniteSet(Printing(n)) /\ Cardinality(Printing(n)) \in Nat
  <2>1. IsFiniteSet(1 .. n)
    BY FS_Interval
  <2> QED  BY <1>1, <2>1, FS_Subset, FS_CardinalityType
<1>3. ASSUME Prints(n + 1)
      PROVE  /\ Cardinality(Printing(n + 1)) = Cardinality(Printing(n)) + 1
             /\ {j \in Printing(n + 1) : j <= n + 1} = Printing(n + 1)
             /\ \A i \in Printing(n) :
                  {j \in Printing(n + 1) : j <= i} = {j \in Printing(n) : j <= i}
  <2>1. Printing(n + 1) = Printing(n) \cup {n + 1} /\ n + 1 \notin Printing(n)
    BY <1>1, <1>3
  <2>2. Cardinality(Printing(n + 1)) = Cardinality(Printing(n)) + 1
    BY <1>2, <2>1, FS_AddElement
  <2> QED  BY <1>1, <2>1, <2>2
<1>4. ASSUME NEW i \in Printing(n)
      PROVE  Cardinality({j \in Printing(n) : j <= i}) \in 1 .. Cardinality(Printing(n))
  <2> DEFINE R == {j \in Printing(n) : j <= i}
  <2>1. R \subseteq Printing(n) /\ i \in R
    BY <1>1
  <2>2. IsFiniteSet(R) /\ Cardinality(R) \in Nat /\ Cardinality(R) <= Cardinality(Printing(n))
    BY <1>2, <2>1, FS_Subset, FS_CardinalityType
  <2>3. Cardinality(R) # 0
    BY <2>1, <2>2, FS_EmptySet
  <2> HIDE DEF R
  <2>4. Cardinality(R) \in 1 .. Cardinality(Printing(n))
    BY <1>2, <2>2, <2>3
  <2> QED  BY <2>4 DEF R
<1> QED  BY <1>1, <1>2, <1>3, <1>4

-----------------------------------------------------------------------------
(* Steps                                                                   *)

\* Events that are only added to leave what the first of them say.
LEMMA SameEvents ==
  ASSUME NEW n \in Nat, \A i \in 1 .. n : events'[i] = events[i]
  PROVE  /\ LastDown(n, Ctrl)' <=> LastDown(n, Ctrl)
         /\ LastDown(n, Alt)' <=> LastDown(n, Alt)
         /\ LastDown(n, Shift)' <=> LastDown(n, Shift)
         /\ \A m \in 0 .. n : /\ Down(m)' = Down(m)
                              /\ \A keys \in Pairs : HasLast(m, keys)' <=> HasLast(m, keys)
         /\ CapsOn(n)' <=> CapsOn(n)
         /\ Printing(n)' = Printing(n)
         /\ \A i \in 1 .. n : CharOf(i)' = CharOf(i)
<1>1. ASSUME NEW m \in 0 .. n, NEW keys
      PROVE  LastDown(m, keys)' <=> LastDown(m, keys)
  <2>1. \A i \in 1 .. m : events'[i] = events[i] /\ \A j \in i + 1 .. m : events'[j] = events[j]
    OBVIOUS
  <2>2. LastDown(m, keys)' <=>
          \E i \in 1 .. m : /\ events'[i][1] \in keys /\ events'[i][2]
                            /\ \A j \in i + 1 .. m : events'[j][1] \notin keys
    BY Zenon DEF LastDown
  <2>3. (\E i \in 1 .. m : /\ events'[i][1] \in keys /\ events'[i][2]
                           /\ \A j \in i + 1 .. m : events'[j][1] \notin keys)
        <=> LastDown(m, keys)
    BY <2>1, Zenon DEF LastDown
  <2> QED  BY <2>2, <2>3, Zenon
<1>5. ASSUME NEW m \in 0 .. n, NEW keys
      PROVE  LetGo(m, keys)' <=> LetGo(m, keys)
  <2>1. \A i \in 1 .. m : events'[i] = events[i] /\ \A j \in i + 1 .. m : events'[j] = events[j]
    OBVIOUS
  <2>2. LetGo(m, keys)' <=>
          \E i \in 1 .. m : /\ events'[i][1] \in keys /\ ~events'[i][2]
                            /\ \A j \in i + 1 .. m : events'[j][1] \notin keys
    BY Zenon DEF LetGo
  <2>3. (\E i \in 1 .. m : /\ events'[i][1] \in keys /\ ~events'[i][2]
                           /\ \A j \in i + 1 .. m : events'[j][1] \notin keys)
        <=> LetGo(m, keys)
    BY <2>1, Zenon DEF LetGo
  <2> QED  BY <2>2, <2>3, Zenon
<1>6. ASSUME NEW m \in 0 .. n
      PROVE  Down(m)' = Down(m)
  <2>1. \A i \in 1 .. m : events'[i] = events[i] /\ \A j \in i + 1 .. m : events'[j] = events[j]
    OBVIOUS
  <2>2. ASSUME NEW k \in Key
        PROVE  (\E i \in 1 .. m : /\ events'[i] = <<k, TRUE>>
                                  /\ \A j \in i + 1 .. m : events'[j][1] # k)
               <=> \E i \in 1 .. m : /\ events[i] = <<k, TRUE>>
                                     /\ \A j \in i + 1 .. m : events[j][1] # k
    <3>1. PICK c : c = <<k, TRUE>>
      OBVIOUS
    <3>2. \A i \in 1 .. m :
            (events'[i] = c /\ \A j \in i + 1 .. m : events'[j][1] # k)
            <=> (events[i] = c /\ \A j \in i + 1 .. m : events[j][1] # k)
      BY <2>1
    <3>3. (\E i \in 1 .. m : events'[i] = c /\ \A j \in i + 1 .. m : events'[j][1] # k)
          <=> \E i \in 1 .. m : events[i] = c /\ \A j \in i + 1 .. m : events[j][1] # k
      BY <3>2, Zenon
    <3> QED  BY <3>1, <3>3
  <2>3. \A k \in Key : k \in Down(m)' <=> k \in Down(m)
    BY <2>2, Zenon DEF Down
  <2>4. Down(m)' \subseteq Key /\ Down(m) \subseteq Key
    BY DEF Down
  <2> QED  BY <2>3, <2>4
<1>7. ASSUME NEW m \in 0 .. n, NEW keys \in Pairs
      PROVE  HasLast(m, keys)' <=> HasLast(m, keys)
  <2>1. (LastDown(m, keys)' <=> LastDown(m, keys)) /\ (LetGo(m, keys)' <=> LetGo(m, keys))
    BY <1>1, <1>5
  <2>2. \A i \in 1 .. m : events'[i] = events[i]
    OBVIOUS
  <2>3. (\A i \in 1 .. m : events'[i][1] \notin keys) <=> \A i \in 1 .. m : events[i][1] \notin keys
    BY <2>2, Zenon
  <2> QED  BY <2>1, <2>3, Zenon DEF HasLast
<1>2. ASSUME NEW m \in 0 .. n
      PROVE  CapsOn(m)' <=> CapsOn(m)
  <2>1. PICK c : c = <<CAPS_LOCK_MAKE, FALSE>>
    OBVIOUS
  <2>2. \A i \in 1 .. m : events'[i] = events[i]
    OBVIOUS
  <2>3. {i \in 1 .. m : events'[i] = c} = {i \in 1 .. m : events[i] = c}
    BY <2>2
  <2>4. CapsOn(m)' <=> Cardinality({i \in 1 .. m : events'[i] = c}) % 2 = 1
    BY <2>1, Zenon DEF CapsOn
  <2>5. CapsOn(m) <=> Cardinality({i \in 1 .. m : events[i] = c}) % 2 = 1
    BY <2>1, Zenon DEF CapsOn
  <2> QED  BY <2>3, <2>4, <2>5, Zenon
<1>3. Printing(n)' = Printing(n)
  BY DEF Printing
<1>4. ASSUME NEW i \in 1 .. n
      PROVE  CharOf(i)' = CharOf(i)
  <2>1. i - 1 \in 0 .. n /\ events'[i] = events[i]
    OBVIOUS
  <2>2. Shifted(i - 1)' <=> Shifted(i - 1)
    <3>1. (LetGo(i - 1, Shift)' <=> LetGo(i - 1, Shift)) /\ Down(i - 1)' = Down(i - 1)
      BY <1>5, <1>6, <2>1, Zenon
    <3> QED  BY <3>1, Zenon DEF Shifted
  <2>3. CapsOn(i - 1)' <=> CapsOn(i - 1)
    BY <1>2, <2>1, Zenon
  <2>4. (Shifted(i - 1)' \/ CapsOn(i - 1)') = (Shifted(i - 1) \/ CapsOn(i - 1))
    BY <2>2, <2>3, Zenon
  <2> QED  BY <2>1, <2>4, Zenon DEF CharOf
<1> QED  BY <1>1, <1>2, <1>3, <1>4, <1>6, <1>7

\* The keys that are down stay so while there is no event.
LEMMA HeldSame ==
  ASSUME HeldInv, events \in Seq(Key \X BOOLEAN), held' = held, events' = events
  PROVE  HeldInv'
<1>1. PICK N \in Nat : N = Len(events)
  OBVIOUS
<1>2. \A m \in 0 .. N : /\ Down(m)' = Down(m)
                        /\ \A keys \in Pairs : HasLast(m, keys)' <=> HasLast(m, keys)
  <2>1. \A i \in 1 .. N : events'[i] = events[i]
    OBVIOUS
  <2> QED  BY <2>1, SameEvents
<1>3. held' = Down(N)'
  BY <1>1, <1>2 DEF HeldInv
<1>4. \A n \in 0 .. N : \A keys \in Pairs : HasLast(n, keys)'
  BY <1>1, <1>2 DEF HeldInv
<1>5. Len(events') = N
  BY <1>1
<1>6. (HeldInv)' <=> held' = Down(N)' /\ \A n \in 0 .. N : \A keys \in Pairs : HasLast(n, keys)'
  BY <1>5 DEF HeldInv
<1> QED  BY <1>3, <1>4, <1>6

\* The places up to one more.
LEMMA OneMore ==
  ASSUME NEW n \in Nat
  PROVE  /\ 1 .. n + 1 = (1 .. n) \cup {n + 1} /\ n + 1 + 1 .. n + 1 = {}
         /\ \A i \in 1 .. n : i + 1 .. n + 1 = (i + 1 .. n) \cup {n + 1}
OBVIOUS

\* What a press or a release does to the keys that are down.
LEMMA DownNext ==
  ASSUME events' \in Seq(Key \X BOOLEAN), NEW n \in Nat, NEW k \in Key, NEW down \in BOOLEAN,
         events'[n + 1] = <<k, down>>
  PROVE  Down(n + 1)' = IF down THEN Down(n)' \cup {k} ELSE Down(n)' \ {k}
<1>1. 1 .. n + 1 = (1 .. n) \cup {n + 1} /\ n + 1 + 1 .. n + 1 = {}
  BY OneMore
<1>2. \A i \in 1 .. n : i + 1 .. n + 1 = (i + 1 .. n) \cup {n + 1}
  BY OneMore
<1>3. /\ events'[n + 1][1] = k
      /\ \A x : events'[n + 1] = <<x, TRUE>> <=> x = k /\ down
  <2>1. \A x, y : <<k, down>> = <<x, y>> <=> k = x /\ down = y
    OBVIOUS
  <2>2. <<k, down>>[1] = k
    OBVIOUS
  <2>3. events'[n + 1] = <<k, down>>
    OBVIOUS
  <2>4. (down = TRUE) <=> down
    OBVIOUS
  <2> QED  BY <2>1, <2>2, <2>3, <2>4, Zenon
<1>4. ASSUME NEW x \in Key
      PROVE  x \in Down(n + 1)' <=> (x = k /\ down) \/ (x # k /\ x \in Down(n)')
  <2>1. x \in Down(n + 1)' <=>
          \E i \in 1 .. n + 1 : /\ events'[i] = <<x, TRUE>>
                                /\ \A j \in i + 1 .. n + 1 : events'[j][1] # x
    BY DEF Down
  <2>2. x \in Down(n)' <=>
          \E i \in 1 .. n : /\ events'[i] = <<x, TRUE>>
                            /\ \A j \in i + 1 .. n : events'[j][1] # x
    BY DEF Down
  <2>3. CASE x = k
    <3>1. \A i \in 1 .. n : ~ \A j \in i + 1 .. n + 1 : events'[j][1] # x
      BY <1>2, <1>3, <2>3
    <3>2. (\E i \in 1 .. n + 1 : /\ events'[i] = <<x, TRUE>>
                                 /\ \A j \in i + 1 .. n + 1 : events'[j][1] # x)
          <=> events'[n + 1] = <<x, TRUE>>
      BY <1>1, <3>1
    <3> QED  BY <1>3, <2>1, <2>3, <3>2
  <2>4. CASE x # k
    <3>1. events'[n + 1] # <<x, TRUE>>
      BY <1>3, <2>4
    <3>2. \A i \in 1 .. n : (\A j \in i + 1 .. n + 1 : events'[j][1] # x)
                            <=> (\A j \in i + 1 .. n : events'[j][1] # x)
      BY <1>2, <1>3, <2>4
    <3>3. (\E i \in 1 .. n + 1 : /\ events'[i] = <<x, TRUE>>
                                 /\ \A j \in i + 1 .. n + 1 : events'[j][1] # x)
          <=> \E i \in 1 .. n : /\ events'[i] = <<x, TRUE>>
                                /\ \A j \in i + 1 .. n : events'[j][1] # x
      BY <1>1, <3>1, <3>2
    <3> QED  BY <2>1, <2>2, <2>4, <3>3, Zenon
  <2> QED  BY <2>3, <2>4
<1>5. Down(n + 1)' \subseteq Key /\ Down(n)' \subseteq Key
  BY DEF Down
<1> QED  BY <1>4, <1>5

\* One more event is the last one of its keys.
LEMMA HasLastNext ==
  ASSUME NEW n \in Nat, NEW keys, HasLast(n, keys)', events'[n + 1][2] \in BOOLEAN
  PROVE  HasLast(n + 1, keys)'
<1>1. 1 .. n + 1 = (1 .. n) \cup {n + 1} /\ n + 1 + 1 .. n + 1 = {}
  BY OneMore
<1>2. \A i \in 1 .. n : i + 1 .. n + 1 = (i + 1 .. n) \cup {n + 1}
  BY OneMore
<1>3. CASE events'[n + 1][1] \in keys
  <2>1. events'[n + 1][2] => LastDown(n + 1, keys)'
    BY <1>1, <1>3 DEF LastDown
  <2>2. ~events'[n + 1][2] => LetGo(n + 1, keys)'
    BY <1>1, <1>3 DEF LetGo
  <2> QED  BY <2>1, <2>2, Zenon DEF HasLast
<1>4. CASE events'[n + 1][1] \notin keys
  <2>1. LastDown(n, keys)' => LastDown(n + 1, keys)'
    BY <1>1, <1>2, <1>4 DEF LastDown
  <2>2. LetGo(n, keys)' => LetGo(n + 1, keys)'
    BY <1>1, <1>2, <1>4 DEF LetGo
  <2>3. (\A i \in 1 .. n : events'[i][1] \notin keys)
        => \A i \in 1 .. n + 1 : events'[i][1] \notin keys
    BY <1>1, <1>4
  <2> QED  BY <2>1, <2>2, <2>3, Zenon DEF HasLast
<1> QED  BY <1>3, <1>4

\* A press or a release.
LEMMA HeldNext ==
  ASSUME HeldInv, events \in Seq(Key \X BOOLEAN), NEW k \in Key, NEW down \in BOOLEAN,
         events' = Append(events, <<k, down>>),
         held' = IF down THEN held \cup {k} ELSE held \ {k}
  PROVE  HeldInv'
<1>1. PICK N \in Nat : N = Len(events)
  OBVIOUS
<1>2. /\ Len(events') = N + 1 /\ events'[N + 1] = <<k, down>>
      /\ \A i \in 1 .. N : events'[i] = events[i]
      /\ events' \in Seq(Key \X BOOLEAN)
  BY <1>1
<1>3. \A m \in 0 .. N : /\ Down(m)' = Down(m)
                        /\ \A keys \in Pairs : HasLast(m, keys)' <=> HasLast(m, keys)
  BY <1>2, SameEvents
<1>4. Down(N)' = Down(N) /\ held = Down(N)
  BY <1>1, <1>3 DEF HeldInv
<1>5. Down(N + 1)' = IF down THEN Down(N)' \cup {k} ELSE Down(N)' \ {k}
  BY <1>2, DownNext
<1>6. held' = Down(N + 1)'
  BY <1>4, <1>5, Zenon
<1>7. \A n \in 0 .. N : \A keys \in Pairs : HasLast(n, keys)'
  BY <1>1, <1>3 DEF HeldInv
<1>8. \A keys \in Pairs : HasLast(N + 1, keys)'
  BY <1>2, <1>7, HasLastNext
<1>9. \A n \in 0 .. N + 1 : \A keys \in Pairs : HasLast(n, keys)'
  <2>1. \A n \in 0 .. N + 1 : n \in 0 .. N \/ n = N + 1
    OBVIOUS
  <2> QED  BY <1>7, <1>8, <2>1, Zenon
<1> QED  BY <1>2, <1>6, <1>9, Zenon DEF HeldInv

\* What has been decoded stays so when events are added.
LEMMA DecodedSame ==
  ASSUME NEW n \in Nat, \A i \in 1 .. n : events'[i] = events[i], Decoded(n), out' = out,
         kbd'.ctrl_status = kbd.ctrl_status, kbd'.alt_status = kbd.alt_status,
         kbd'.shift_status = kbd.shift_status,
         kbd'.caps_lock_status = kbd.caps_lock_status
  PROVE  Decoded(n)'
<1>1. /\ LastDown(n, Ctrl)' <=> LastDown(n, Ctrl)
      /\ LastDown(n, Alt)' <=> LastDown(n, Alt)
      /\ LastDown(n, Shift)' <=> LastDown(n, Shift)
      /\ CapsOn(n)' <=> CapsOn(n)
      /\ Printing(n)' = Printing(n)
      /\ \A i \in 1 .. n : CharOf(i)' = CharOf(i)
  BY SameEvents
<1>2. PrintedUpTo(n)'
  <2>1. PrintedUpTo(n) /\ Printing(n) \subseteq 1 .. n
    BY DEF Decoded, Printing
  <2> QED  BY <1>1, <2>1 DEF PrintedUpTo
<1> QED  BY <1>1, <1>2, Zenon DEF Decoded

\* The output after an event that prints and one that does not.
LEMMA PrintedNext ==
  ASSUME NEW n \in Nat, out \in Seq(Char), PrintedUpTo(n), UNCHANGED events,
         Prints(n + 1) => out' = Append(out, CharOf(n + 1)),
         ~Prints(n + 1) => out' = out
  PROVE  PrintedUpTo(n + 1)'
<1>1. Printing(n + 1)' = Printing(n + 1) /\ \A i \in 1 .. n + 1 : CharOf(i)' = CharOf(i)
  <2>1. \A i \in 1 .. n + 1 : events'[i] = events[i]
    OBVIOUS
  <2> QED  BY <2>1, SameEvents
<1>2. Printing(n + 1) \subseteq 1 .. n + 1 /\ Printing(n) \subseteq 1 .. n
  BY DEF Printing
<1>3. SUFFICES /\ Len(out') = Cardinality(Printing(n + 1))
               /\ \A i \in Printing(n + 1) :
                    out'[Cardinality({j \in Printing(n + 1) : j <= i})] = CharOf(i)
  BY <1>1, <1>2 DEF PrintedUpTo
<1>4. /\ Len(out) = Cardinality(Printing(n))
      /\ \A i \in Printing(n) :
           out[Cardinality({j \in Printing(n) : j <= i})] = CharOf(i)
  BY DEF PrintedUpTo
<1>5. CASE ~Prints(n + 1)
  BY <1>4, <1>5, PrintingNext
<1>6. CASE Prints(n + 1)
  <2>1. /\ Cardinality(Printing(n + 1)) = Cardinality(Printing(n)) + 1
        /\ Printing(n + 1) = Printing(n) \cup {n + 1}
        /\ {j \in Printing(n + 1) : j <= n + 1} = Printing(n + 1)
        /\ \A i \in Printing(n) :
             {j \in Printing(n + 1) : j <= i} = {j \in Printing(n) : j <= i}
        /\ \A i \in Printing(n) :
             Cardinality({j \in Printing(n) : j <= i}) \in 1 .. Cardinality(Printing(n))
    BY <1>6, PrintingNext
  <2>2. Len(out') = Len(out) + 1 /\ out'[Len(out) + 1] = CharOf(n + 1)
        /\ \A x \in 1 .. Len(out) : out'[x] = out[x]
    BY <1>6
  <2>3. ASSUME NEW i \in Printing(n)
        PROVE  out'[Cardinality({j \in Printing(n + 1) : j <= i})] = CharOf(i)
    <3>1. PICK r : r = Cardinality({j \in Printing(n) : j <= i})
      OBVIOUS
    <3>2. r \in 1 .. Len(out) /\ out[r] = CharOf(i)
      BY <1>4, <2>1, <3>1
    <3>3. {j \in Printing(n + 1) : j <= i} = {j \in Printing(n) : j <= i}
      BY <2>1
    <3> QED  BY <2>2, <3>1, <3>2, <3>3, Zenon
  <2>4. out'[Cardinality({j \in Printing(n + 1) : j <= n + 1})] = CharOf(n + 1)
    BY <1>4, <2>1, <2>2
  <2> QED  BY <1>4, <2>1, <2>2, <2>3, <2>4
<1> QED  BY <1>5, <1>6

\* An event adds its bytes behind those that wait.
LEMMA EventInv ==
  ASSUME KeysInv, NEW k \in Key, NEW down \in BOOLEAN, Event(k, down),
         held' = IF down THEN held \cup {k} ELSE held \ {k}
  PROVE  KeysInv'
<1>2. TypingTypeOK
  BY DEF KeysInv
<1>3. /\ events' = Append(events, <<k, down>>)
      /\ wire' = wire \o Bytes(k, down) /\ kbd' = kbd /\ out' = out
  BY DEF Event
<1>4. PICK N \in Nat : N = Len(events)
  BY <1>2 DEF TypingTypeOK
<1>1. PICK n \in Nat : n <= N /\ \E at \in [Nat -> Int] : Waiting(n, at) /\ Decoded(n)
  BY <1>4 DEF KeysInv
<1>15. PICK at : at \in [Nat -> Int] /\ Waiting(n, at) /\ Decoded(n)
  BY <1>1
<1>5. /\ Len(events') = N + 1 /\ events'[N + 1] = <<k, down>>
      /\ \A i \in 1 .. N : events'[i] = events[i]
      /\ events' \in Seq(Key \X BOOLEAN)
  BY <1>2, <1>3, <1>4 DEF TypingTypeOK
<1>6. PICK L \in Nat : L = Len(wire)
  BY <1>2 DEF TypingTypeOK
<1>7. PICK b \in Seq(UINT8) : b = Bytes(k, down)
  <2>1. Low(k, down) \in UINT8 /\ 224 \in UINT8
    BY Codes DEF UINT8
  <2>2. <<Low(k, down)>> \in Seq(UINT8) /\ <<224, Low(k, down)>> \in Seq(UINT8)
    BY <2>1
  <2> QED  BY <2>2, Zenon DEF Bytes
<1>8. /\ Len(b) = IF Extended(k) THEN 2 ELSE 1
      /\ b[Len(b)] = Low(k, down)
      /\ Extended(k) => b[1] = \hE0
  BY <1>7 DEF Bytes
<1>9. /\ wire' \in Seq(UINT8) /\ Len(wire') = L + Len(b)
      /\ \A x \in 1 .. L : wire'[x] = wire[x]
      /\ \A x \in 1 .. Len(b) : wire'[L + x] = b[x]
  BY <1>2, <1>3, <1>6, <1>7 DEF TypingTypeOK
<1>10. TypingTypeOK'
  <2>1. held' \subseteq Key
    BY <1>2 DEF TypingTypeOK
  <2> QED  BY <1>2, <1>3, <1>5, <1>9, <2>1 DEF TypingTypeOK
<1>18. HeldInv'
  <2>1. HeldInv /\ events \in Seq(Key \X BOOLEAN)
    BY <1>2 DEF KeysInv, TypingTypeOK
  <2> QED  BY <1>3, <2>1, HeldNext
<1>11. Decoded(n)'
  <2>1. n \in Nat /\ \A i \in 1 .. n : events'[i] = events[i]
    BY <1>1, <1>5
  <2> QED  BY <1>3, <1>15, <2>1, DecodedSame
<1> DEFINE at2 == [i \in Nat |-> IF i = N + 2 THEN L + Len(b) ELSE at[i]]
<1>16. at2 \in [Nat -> Int]
  BY <1>6, <1>7, <1>15
<1>12. at2[N + 2] = L + Len(b) /\ \A i \in 1 .. N + 1 : at2[i] = at[i]
  OBVIOUS
<1>17. \A i \in Nat : at[i] \in Int
  BY <1>15
<1> HIDE DEF at2
<1>13. Waiting(n, at2)'
  <2>1. /\ at[n + 1] = IF kbd.ext_scan_code THEN -1 ELSE 0
        /\ at[N + 1] = L
        /\ kbd.ext_scan_code => n < N /\ Extended(events[n + 1][1])
        /\ \A i, j \in n + 1 .. N + 1 : i < j => at[i] < at[j]
        /\ \A i \in n + 1 .. N :
             /\ at[i + 1] = at[i] + (IF Extended(events[i][1]) THEN 2 ELSE 1)
             /\ wire[at[i + 1]] = Low(events[i][1], events[i][2])
             /\ Extended(events[i][1]) /\ at[i] >= 0 => wire[at[i] + 1] = \hE0
    BY <1>4, <1>6, <1>15 DEF Waiting
  <2>2. n \in 0 .. N
    BY <1>1
  <2>8. ASSUME NEW i \in n + 1 .. N + 1
        PROVE  at[i] \in Int /\ at[i] <= L
    <3>1. i \in Nat /\ N + 1 \in n + 1 .. N + 1 /\ at[i] \in Int
      BY <1>17, <2>2
    <3>2. i < N + 1 => at[i] < at[N + 1]
      BY <2>1, <3>1
    <3>3. at[N + 1] = L
      BY <2>1
    <3>4. i = N + 1 \/ i < N + 1
      OBVIOUS
    <3> QED  BY <3>1, <3>2, <3>3, <3>4
  <2>3. at2[n + 1] = IF kbd'.ext_scan_code THEN -1 ELSE 0
    BY <1>3, <1>12, <2>1, <2>2
  <2>4. at2[Len(events') + 1] = Len(wire')
    BY <1>5, <1>9, <1>12
  <2>5. kbd'.ext_scan_code => n < Len(events') /\ Extended(events'[n + 1][1])
    BY <1>3, <1>5, <2>1, <2>2
  <2>6. \A i, j \in n + 1 .. Len(events') + 1 : i < j => at2[i] < at2[j]
    <3>2. Len(b) \in {1, 2}
      BY <1>8
    <3>3. ASSUME NEW i \in n + 1 .. N + 2, NEW j \in n + 1 .. N + 2, i < j
          PROVE  at2[i] < at2[j]
      <4>1. CASE j = N + 2
        <5>1. i \in n + 1 .. N + 1 /\ at2[i] = at[i]
          BY <1>12, <2>2, <3>3, <4>1
        <5>2. at[i] \in Int /\ at[i] <= L
          BY <2>8, <5>1
        <5>3. at2[j] = L + Len(b) /\ L < L + Len(b)
          <6>1. PICK l \in {1, 2} : l = Len(b)
            BY <3>2
          <6>2. at2[j] = L + Len(b)
            BY <1>12, <4>1
          <6>3. L < L + l
            OBVIOUS
          <6> QED  BY <6>1, <6>2, <6>3, Zenon
        <5>4. at[i] < at2[j]
          BY <5>2, <5>3, <3>2
        <5> QED  BY <5>1, <5>4
      <4>2. CASE j # N + 2
        BY <1>12, <2>1, <2>2, <3>3, <4>2
      <4> QED  BY <4>1, <4>2
    <3> QED  BY <1>5, <3>3
  <2>7. ASSUME NEW i \in n + 1 .. N + 1
        PROVE  /\ at2[i + 1] = at2[i] + (IF Extended(events'[i][1]) THEN 2 ELSE 1)
               /\ wire'[at2[i + 1]] = Low(events'[i][1], events'[i][2])
               /\ Extended(events'[i][1]) /\ at2[i] >= 0 => wire'[at2[i] + 1] = \hE0
    <3>1. CASE i = N + 1
      <4>1. events'[i][1] = k /\ events'[i][2] = down
        BY <1>5, <3>1
      <4>2. at2[i] = L /\ at2[i + 1] = L + Len(b)
        <5>1. N + 1 \in 1 .. N + 1 /\ N + 1 + 1 = N + 2
          OBVIOUS
        <5>2. at2[N + 1] = at[N + 1] /\ at2[N + 1 + 1] = L + Len(b) /\ at[N + 1] = L
          BY <1>12, <2>1, <5>1, Zenon
        <5> QED  BY <3>1, <5>2
      <4>3. wire'[L + Len(b)] = Low(k, down) /\ (Extended(k) => wire'[L + 1] = \hE0)
        BY <1>8, <1>9
      <4> QED  BY <1>8, <4>1, <4>2, <4>3
    <3>2. CASE i \in n + 1 .. N
      <4>1. events'[i] = events[i] /\ at2[i] = at[i] /\ at2[i + 1] = at[i + 1]
        BY <1>5, <1>12, <2>2, <3>2
      <4>2. at[i] \in Int /\ at[i + 1] \in Int /\ at[i + 1] <= L
        <5>1. i + 1 \in n + 1 .. N + 1
          BY <3>2
        <5> QED  BY <2>8, <5>1
      <4>3. at[i] >= -1
        BY <1>17, <2>1, <2>2, <3>2
      <4>4. at[i + 1] = at[i] + (IF Extended(events[i][1]) THEN 2 ELSE 1)
        BY <2>1, <3>2
      <4>5. at[i + 1] >= 1
        <5>1. CASE Extended(events[i][1])
          BY <4>2, <4>3, <4>4, <5>1
        <5>2. CASE ~Extended(events[i][1])
          <6>1. at[i] >= 0
            BY <1>17, <2>1, <2>2, <3>2, <5>2
          <6> QED  BY <4>2, <4>4, <5>2, <6>1
        <5> QED  BY <5>1, <5>2
      <4>6. wire'[at[i + 1]] = wire[at[i + 1]]
        BY <1>9, <4>2, <4>5
      <4>7. Extended(events[i][1]) /\ at[i] >= 0 => wire'[at[i] + 1] = wire[at[i] + 1]
        BY <1>9, <4>2, <4>4
      <4> QED  BY <2>1, <3>2, <4>1, <4>6, <4>7
    <3> QED  BY <3>1, <3>2
  <2> QED  BY <1>5, <2>3, <2>4, <2>5, <2>6, <2>7 DEF Waiting
<1>14. n \in 0 .. Len(events')
  BY <1>1, <1>5
<1> QED  BY <1>10, <1>11, <1>13, <1>16, <1>14, <1>18 DEF KeysInv

\* The interrupt for the first of two bytes.
LEMMA FirstByte ==
  ASSUME NEW kb \in KeyboardState, ~kb.ext_scan_code
  PROVE  LET r == intr_keyboard_handler(kb, \hE0)
         IN  /\ r.k \in KeyboardState /\ r.k.ext_scan_code = TRUE
             /\ r.k.ctrl_status = kb.ctrl_status /\ r.k.alt_status = kb.alt_status
             /\ r.k.shift_status = kb.shift_status
             /\ r.k.caps_lock_status = kb.caps_lock_status
             /\ r.char = NO_CHAR
<1>1. PICK kb1 : kb1 = SetField(kb, "ext_scan_code", TRUE)
  OBVIOUS
<1>2. (~kb.ext_scan_code /\ \hE0 = \hE0) = TRUE
  BY Zenon
<1>3. [kb EXCEPT !.ext_scan_code = ~@ /\ \hE0 = \hE0] = kb1
  BY <1>1, <1>2, Zenon DEF SetField
<1>4. scan_code_get(kb, \hE0).code = \hE0 /\ scan_code_get(kb, \hE0).k = kb1
  BY <1>3 DEF scan_code_get
<1>5. /\ intr_keyboard_handler(kb, \hE0).k = kb1
      /\ intr_keyboard_handler(kb, \hE0).char = NO_CHAR
  BY <1>4 DEF intr_keyboard_handler
<1>6. /\ kb1 \in KeyboardState /\ kb1["ext_scan_code"] = TRUE
      /\ \A g \in Status \ {"ext_scan_code"} : kb1[g] = kb[g]
  <2>1. PICK b \in BOOLEAN : b = TRUE
    OBVIOUS
  <2>2. "ext_scan_code" \in Status
    BY DEF Status
  <2>3. /\ SetField(kb, "ext_scan_code", b) \in KeyboardState
        /\ SetField(kb, "ext_scan_code", b)["ext_scan_code"] = b
        /\ \A g \in Status \ {"ext_scan_code"} : SetField(kb, "ext_scan_code", b)[g] = kb[g]
    BY <2>2, PutStatus
  <2> QED  BY <1>1, <2>1, <2>3
<1> QED  BY <1>5, <1>6 DEF Status

\* The characters of keys are characters.
LEMMA CharIs ==
  ASSUME NEW i \in 0 .. KEYMAP_MAX_INDEX, NEW b \in BOOLEAN
  PROVE  keymap(i, b) \in Char /\ keymap(i, b) # NO_CHAR
<1>1. keymap(i, b) \in Char
  BY DEF Char
<1>2. Len(NO_CHAR) = 0
  BY DEF NO_CHAR
<1>3. Len(keymap(i, b)) = 2
  <2>1. CASE i \in Invisible
    BY <2>1 DEF keymap, CHAR_INVISIBLE
  <2>2. CASE i \notin Invisible
    <3>1. keymap(i, b) = <<i, b /\ i \notin OneCase>>
      BY <2>2, Zenon DEF keymap
    <3> QED  BY <3>1
  <2> QED  BY <2>1, <2>2
<1> QED  BY <1>1, <1>2, <1>3

\* Statuses and output after the last byte of event n + 1.
LEMMA DecodedNext ==
  ASSUME TypingTypeOK, NEW n \in Nat, n < Len(events), Decoded(n), HasLast(n, Shift),
         NEW low, low = Low(events[n + 1][1], events[n + 1][2]),
         kbd.ext_scan_code <=> Extended(events[n + 1][1]),
         kbd' = intr_keyboard_handler(kbd, low).k,
         out' = LET c == intr_keyboard_handler(kbd, low).char
                IN  IF c = NO_CHAR THEN out ELSE Append(out, c),
         UNCHANGED events
  PROVE  /\ kbd' \in KeyboardState /\ out' \in Seq(Char) /\ kbd'.ext_scan_code = FALSE
         /\ Decoded(n + 1)'
<1>1. PICK k \in Key, down \in BOOLEAN : events[n + 1] = <<k, down>>
  <2>1. events[n + 1] \in Key \X BOOLEAN
    BY DEF TypingTypeOK
  <2> QED  BY <2>1
<1>2. events[n + 1][1] = k /\ events[n + 1][2] = down
  BY <1>1
<1>3. PICK c : c = intr_keyboard_handler(kbd, low).char
  OBVIOUS
<1>4. kbd \in KeyboardState /\ out \in Seq(Char)
  BY DEF TypingTypeOK
<1>5. /\ kbd' \in KeyboardState
      /\ kbd'.ext_scan_code = FALSE
      /\ kbd'.ctrl_status = IF k \in Ctrl THEN down ELSE kbd.ctrl_status
      /\ kbd'.alt_status = IF k \in Alt THEN down ELSE kbd.alt_status
      /\ kbd'.shift_status = IF k \in Shift THEN down ELSE kbd.shift_status
      /\ kbd'.caps_lock_status = IF k = CAPS_LOCK_MAKE /\ ~down
                                 THEN ~kbd.caps_lock_status ELSE kbd.caps_lock_status
      /\ c = IF down /\ k \notin Modifier /\ k % 256 <= KEYMAP_MAX_INDEX
             THEN keymap(k % 256, kbd.shift_status \/ kbd.caps_lock_status)
             ELSE NO_CHAR
  <2>1. (kbd.ext_scan_code <=> Extended(k)) /\ low = Low(k, down)
    BY <1>2, Zenon
  <2> DEFINE r == intr_keyboard_handler(kbd, low)
  <2>2. DecodesTo(r, kbd, k, down)
    BY <1>4, <2>1, Decode
  <2>3. kbd' = r.k /\ c = r.char
    BY <1>3
  <2> HIDE DEF r
  <2> QED  BY <2>2, <2>3, Zenon DEF DecodesTo
<1>6. PICK b \in BOOLEAN : b = (kbd.shift_status \/ kbd.caps_lock_status)
  OBVIOUS
<1>7. (kbd.shift_status <=> LastDown(n, Shift)) /\ (kbd.caps_lock_status <=> CapsOn(n))
  BY DEF Decoded
<1>8. CharOf(n + 1) = keymap(k % 256, b)
  <2>1. n + 1 - 1 = n
    OBVIOUS
  <2>2. (Shifted(n) \/ CapsOn(n)) = b
    <3>1. events \in Seq(Key \X BOOLEAN) /\ n <= Len(events)
      BY DEF TypingTypeOK
    <3>2. LastDown(n, Shift) <=> Down(n) \cap Shift # {} /\ ~LetGo(n, Shift)
      BY <3>1, LastDownIs
    <3>3. LastDown(n, Shift) <=> Shifted(n)
      BY <3>2, Zenon DEF Shifted
    <3> QED  BY <1>6, <1>7, <3>3, Zenon
  <2>3. PICK m : m = n + 1
    OBVIOUS
  <2>4. CharOf(m) = keymap(events[m][1] % 256, Shifted(m - 1) \/ CapsOn(m - 1))
    BY Zenon DEF CharOf
  <2>5. m - 1 = n /\ events[m][1] = k
    BY <1>2, <2>3
  <2>6. CharOf(m) = keymap(k % 256, Shifted(n) \/ CapsOn(n))
    BY <2>4, <2>5, Zenon
  <2> QED  BY <2>2, <2>3, <2>6, Zenon
<1>9. Prints(n + 1) <=> down /\ k \notin Modifier /\ k % 256 <= KEYMAP_MAX_INDEX
  BY <1>2, Zenon DEF Prints
<1>10. out' = IF c = NO_CHAR THEN out ELSE Append(out, c)
  BY <1>3
<1>11. /\ Prints(n + 1) => out' = Append(out, CharOf(n + 1)) /\ CharOf(n + 1) \in Char
       /\ ~Prints(n + 1) => out' = out
  <2>1. CASE Prints(n + 1)
    <3>1. k % 256 \in 0 .. KEYMAP_MAX_INDEX
      <4>1. k \in Nat
        BY Codes
      <4> QED  BY <1>9, <2>1, <4>1 DEF KEYMAP_MAX_INDEX
    <3>2. keymap(k % 256, b) \in Char /\ keymap(k % 256, b) # NO_CHAR
      BY <3>1, CharIs
    <3>3. c = keymap(k % 256, b)
      BY <1>5, <1>6, <1>9, <2>1, Zenon
    <3> QED  BY <1>8, <1>10, <2>1, <3>2, <3>3, Zenon
  <2>2. CASE ~Prints(n + 1)
    <3>1. c = NO_CHAR
      BY <1>5, <1>9, <2>2, Zenon
    <3> QED  BY <1>10, <2>2, <3>1
  <2> QED  BY <2>1, <2>2
<1>12. out' \in Seq(Char)
  BY <1>4, <1>11
<1>13. PrintedUpTo(n + 1)'
  <2>1. PrintedUpTo(n)
    BY DEF Decoded
  <2>2. /\ Prints(n + 1) => out' = Append(out, CharOf(n + 1))
        /\ ~Prints(n + 1) => out' = out
    BY <1>11
  <2> QED  BY <1>4, <2>1, <2>2, PrintedNext
<1>14. /\ kbd'.ctrl_status <=> LastDown(n + 1, Ctrl)
       /\ kbd'.alt_status <=> LastDown(n + 1, Alt)
       /\ kbd'.shift_status <=> LastDown(n + 1, Shift)
  <2>1. /\ kbd.ctrl_status <=> LastDown(n, Ctrl)
        /\ kbd.alt_status <=> LastDown(n, Alt)
    BY DEF Decoded
  <2>2. /\ k \in Ctrl => (LastDown(n + 1, Ctrl) <=> down)
        /\ k \notin Ctrl => (LastDown(n + 1, Ctrl) <=> LastDown(n, Ctrl))
    BY <1>2, LastDownNext
  <2>3. /\ k \in Alt => (LastDown(n + 1, Alt) <=> down)
        /\ k \notin Alt => (LastDown(n + 1, Alt) <=> LastDown(n, Alt))
    BY <1>2, LastDownNext
  <2>4. /\ k \in Shift => (LastDown(n + 1, Shift) <=> down)
        /\ k \notin Shift => (LastDown(n + 1, Shift) <=> LastDown(n, Shift))
    BY <1>2, LastDownNext
  <2>5. kbd'.ctrl_status <=> LastDown(n + 1, Ctrl)
    BY <1>5, <2>1, <2>2, Zenon
  <2>6. kbd'.alt_status <=> LastDown(n + 1, Alt)
    BY <1>5, <2>1, <2>3, Zenon
  <2>7. kbd'.shift_status <=> LastDown(n + 1, Shift)
    BY <1>5, <1>7, <2>4, Zenon
  <2> QED  BY <2>5, <2>6, <2>7
<1>15. kbd'.caps_lock_status <=> CapsOn(n + 1)
  <2>1. CASE k = CAPS_LOCK_MAKE /\ ~down
    <3>1. events[n + 1] = <<CAPS_LOCK_MAKE, FALSE>>
      BY <1>1, <2>1
    <3>2. CapsOn(n + 1) <=> ~CapsOn(n)
      BY <3>1, CapsNext
    <3> QED  BY <1>5, <1>7, <2>1, <3>2, Zenon
  <2>2. CASE ~(k = CAPS_LOCK_MAKE /\ ~down)
    <3>1. events[n + 1] # <<CAPS_LOCK_MAKE, FALSE>>
      <4>1. <<CAPS_LOCK_MAKE, FALSE>>[1] = CAPS_LOCK_MAKE /\ <<CAPS_LOCK_MAKE, FALSE>>[2] = FALSE
        OBVIOUS
      <4> QED  BY <1>2, <2>2, <4>1, Zenon
    <3>2. CapsOn(n + 1) <=> CapsOn(n)
      BY <3>1, CapsNext
    <3> QED  BY <1>5, <1>7, <2>2, <3>2, Zenon
  <2> QED  BY <2>1, <2>2
<1>16. /\ LastDown(n + 1, Ctrl)' <=> LastDown(n + 1, Ctrl)
       /\ LastDown(n + 1, Alt)' <=> LastDown(n + 1, Alt)
       /\ LastDown(n + 1, Shift)' <=> LastDown(n + 1, Shift)
       /\ CapsOn(n + 1)' <=> CapsOn(n + 1)
  <2>1. n + 1 \in Nat /\ \A i \in 1 .. n + 1 : events'[i] = events[i]
    OBVIOUS
  <2> QED  BY <2>1, SameEvents
<1>17. Decoded(n + 1)'
  BY <1>13, <1>14, <1>15, <1>16, Zenon DEF Decoded
<1> QED  BY <1>5, <1>12, <1>17

\* Reading a byte: the first of two, or the last one of an event.
LEMMA KeyIntrInv ==
  ASSUME KeysInv, KeyIntr
  PROVE  KeysInv'
<1>1. TypingTypeOK
  BY DEF KeysInv
<1>2. PICK N \in Nat : N = Len(events)
  BY <1>1 DEF TypingTypeOK
<1>3. PICK n \in Nat : n <= N /\ \E at \in [Nat -> Int] : Waiting(n, at) /\ Decoded(n)
  BY <1>2 DEF KeysInv
<1>4. PICK at : at \in [Nat -> Int] /\ Waiting(n, at) /\ Decoded(n)
  BY <1>3
<1>5. \A i \in Nat : at[i] \in Int
  BY <1>4
<1>6. PICK L \in Nat : L = Len(wire)
  BY <1>1 DEF TypingTypeOK
<1>7. /\ L >= 1 /\ Head(wire) = wire[1]
      /\ wire' \in Seq(UINT8) /\ Len(wire') = L - 1
      /\ \A x \in 1 .. L - 1 : wire'[x] = wire[x + 1]
  BY <1>1, <1>6 DEF KeyIntr, TypingTypeOK
<1>8. /\ events' = events /\ held' = held
      /\ kbd' = intr_keyboard_handler(kbd, Head(wire)).k
      /\ out' = LET c == intr_keyboard_handler(kbd, Head(wire)).char
                IN  IF c = NO_CHAR THEN out ELSE Append(out, c)
  BY DEF KeyIntr
<1>9. /\ at[n + 1] = IF kbd.ext_scan_code THEN -1 ELSE 0
      /\ at[N + 1] = L
      /\ kbd.ext_scan_code => n < N /\ Extended(events[n + 1][1])
      /\ \A i, j \in n + 1 .. N + 1 : i < j => at[i] < at[j]
      /\ \A i \in n + 1 .. N :
           /\ at[i + 1] = at[i] + (IF Extended(events[i][1]) THEN 2 ELSE 1)
           /\ wire[at[i + 1]] = Low(events[i][1], events[i][2])
           /\ Extended(events[i][1]) /\ at[i] >= 0 => wire[at[i] + 1] = \hE0
  BY <1>2, <1>4, <1>6 DEF Waiting
<1>10. n < N
  <2>1. CASE n = N
    BY <1>7, <1>9, <2>1
  <2> QED  BY <1>3, <2>1
<1>11. /\ at[n + 1 + 1] = at[n + 1] + (IF Extended(events[n + 1][1]) THEN 2 ELSE 1)
       /\ wire[at[n + 1 + 1]] = Low(events[n + 1][1], events[n + 1][2])
       /\ Extended(events[n + 1][1]) /\ at[n + 1] >= 0 => wire[at[n + 1] + 1] = \hE0
  <2>1. n + 1 \in n + 1 .. N
    BY <1>10
  <2> QED  BY <1>9, <2>1
<1> DEFINE at2 == [i \in Nat |-> at[i] - 1]
<1>12. at2 \in [Nat -> Int]
  BY <1>5
<1>13. \A i \in Nat : at2[i] = at[i] - 1
  OBVIOUS
<1> HIDE DEF at2
<1>14. ASSUME NEW m \in Nat, n <= m, m <= N,
              at[m + 1] = IF kbd'.ext_scan_code THEN 0 ELSE 1,
              kbd'.ext_scan_code => m < N /\ Extended(events[m + 1][1])
       PROVE  Waiting(m, at2)'
  <2>1. \A i \in m + 1 .. N + 1 : i \in Nat /\ i \in n + 1 .. N + 1
    BY <1>14
  <2>2. at2[m + 1] = IF kbd'.ext_scan_code THEN -1 ELSE 0
    <3>1. at2[m + 1] = at[m + 1] - 1
      BY <1>13
    <3>2. CASE kbd'.ext_scan_code
      BY <1>14, <3>1, <3>2
    <3>3. CASE ~kbd'.ext_scan_code
      BY <1>14, <3>1, <3>3
    <3> QED  BY <3>2, <3>3
  <2>3. at2[Len(events') + 1] = Len(wire')
    BY <1>2, <1>7, <1>8, <1>9, <1>13
  <2>4. kbd'.ext_scan_code => m < Len(events') /\ Extended(events'[m + 1][1])
    BY <1>2, <1>8, <1>14
  <2>5. \A i, j \in m + 1 .. Len(events') + 1 : i < j => at2[i] < at2[j]
    <3>1. ASSUME NEW i \in m + 1 .. N + 1, NEW j \in m + 1 .. N + 1, i < j
          PROVE  at2[i] < at2[j]
      <4>1. at[i] < at[j] /\ at[i] \in Int /\ at[j] \in Int
        BY <1>5, <1>9, <2>1, <3>1
      <4>2. at2[i] = at[i] - 1 /\ at2[j] = at[j] - 1
        BY <1>13, <2>1
      <4> QED  BY <4>1, <4>2
    <3> QED  BY <1>2, <1>8, <3>1
  <2>6. ASSUME NEW i \in m + 1 .. N
        PROVE  /\ at2[i + 1] = at2[i] + (IF Extended(events'[i][1]) THEN 2 ELSE 1)
               /\ wire'[at2[i + 1]] = Low(events'[i][1], events'[i][2])
               /\ Extended(events'[i][1]) /\ at2[i] >= 0 => wire'[at2[i] + 1] = \hE0
    <3>1. i \in n + 1 .. N /\ i \in Nat /\ i + 1 \in Nat
      BY <1>14
    <3>2. at2[i] = at[i] - 1 /\ at2[i + 1] = at[i + 1] - 1
      BY <1>13, <3>1
    <3>3. /\ at[i + 1] = at[i] + (IF Extended(events[i][1]) THEN 2 ELSE 1)
          /\ wire[at[i + 1]] = Low(events[i][1], events[i][2])
          /\ Extended(events[i][1]) /\ at[i] >= 0 => wire[at[i] + 1] = \hE0
      BY <1>9, <3>1
    <3>4. at[i] \in Int /\ at[i + 1] \in Int
      BY <1>5, <3>1
    <3>5. at[i + 1] <= L
      <4>1. i + 1 \in n + 1 .. N + 1 /\ N + 1 \in n + 1 .. N + 1
        BY <3>1
      <4>2. i + 1 < N + 1 => at[i + 1] < at[N + 1]
        BY <1>9, <4>1
      <4>3. at[N + 1] = L
        BY <1>9
      <4>4. i + 1 = N + 1 \/ i + 1 < N + 1
        BY <3>1
      <4> QED  BY <3>4, <4>2, <4>3, <4>4
    <3>6. at[m + 1] >= 0 /\ at[i] >= at[m + 1]
      <4>1. at[m + 1] \in {0, 1}
        BY <1>14
      <4>2. m + 1 \in n + 1 .. N + 1 /\ i \in n + 1 .. N + 1
        BY <1>14, <3>1
      <4>3. m + 1 < i => at[m + 1] < at[i]
        BY <1>9, <4>2
      <4>4. m + 1 = i \/ m + 1 < i
        OBVIOUS
      <4> QED  BY <3>4, <4>1, <4>3, <4>4
    <3>7. at[i] >= 0 /\ at[i + 1] >= 2 /\ (~kbd'.ext_scan_code \/ i # m + 1 => at[i] >= 1)
      <4>1. m + 1 < i => at[m + 1] < at[i]
        <5>1. m + 1 \in n + 1 .. N + 1 /\ i \in n + 1 .. N + 1
          BY <1>14, <3>1
        <5> QED  BY <1>9, <5>1
      <4>2. m + 1 = i \/ m + 1 < i
        OBVIOUS
      <4>3. CASE kbd'.ext_scan_code /\ i = m + 1
        BY <1>14, <3>3, <3>4, <4>3
      <4>4. CASE ~kbd'.ext_scan_code /\ i = m + 1
        BY <1>14, <3>3, <3>4, <4>4
      <4>5. CASE m + 1 < i
        <5>1. at[i] >= 1
          BY <3>4, <3>6, <4>1, <4>5, <1>5
        <5> QED  BY <3>3, <3>4, <4>5, <5>1
      <4> QED  BY <4>2, <4>3, <4>4, <4>5
    <3>8. wire'[at[i + 1] - 1] = wire[at[i + 1]]
      <4>1. at[i + 1] - 1 \in 1 .. L - 1
        BY <3>4, <3>5, <3>7
      <4>2. at[i + 1] - 1 + 1 = at[i + 1]
        BY <3>4
      <4> QED  BY <1>7, <4>1, <4>2
    <3>9. Extended(events[i][1]) /\ at[i] - 1 >= 0 => wire'[at[i] - 1 + 1] = \hE0
      <4>1. ASSUME Extended(events[i][1]), at[i] - 1 >= 0
            PROVE  wire'[at[i] - 1 + 1] = \hE0
        <5>1. at[i] \in 1 .. L - 1
          BY <3>3, <3>4, <3>5, <4>1
        <5>2. wire[at[i] + 1] = \hE0
          BY <3>3, <3>4, <4>1
        <5>3. at[i] - 1 + 1 = at[i]
          BY <3>4
        <5> QED  BY <1>7, <5>1, <5>2, <5>3
      <4> QED  BY <4>1
    <3>10. at2[i + 1] = at2[i] + (IF Extended(events[i][1]) THEN 2 ELSE 1)
      BY <3>2, <3>3, <3>4
    <3> QED  BY <1>8, <3>2, <3>3, <3>8, <3>9, <3>10
  <2> QED  BY <1>2, <1>8, <2>2, <2>3, <2>4, <2>5, <2>6 DEF Waiting
<1>15. kbd \in KeyboardState /\ out \in Seq(Char)
  BY <1>1 DEF TypingTypeOK
<1>18. HeldInv' /\ HasLast(n, Shift)
  <2>1. HeldInv /\ events \in Seq(Key \X BOOLEAN)
    BY <1>1 DEF KeysInv, TypingTypeOK
  <2>2. HeldInv'
    BY <1>8, <2>1, HeldSame
  <2>3. n \in 0 .. Len(events) /\ Shift \in Pairs
    BY <1>2, <1>3 DEF Pairs
  <2> QED  BY <2>1, <2>2, <2>3 DEF HeldInv
<1>16. CASE ~kbd.ext_scan_code /\ Extended(events[n + 1][1])
  <2>1. Head(wire) = \hE0
    BY <1>7, <1>9, <1>11, <1>16
  <2>2. /\ kbd' \in KeyboardState /\ kbd'.ext_scan_code = TRUE
        /\ kbd'.ctrl_status = kbd.ctrl_status /\ kbd'.alt_status = kbd.alt_status
        /\ kbd'.shift_status = kbd.shift_status
        /\ kbd'.caps_lock_status = kbd.caps_lock_status
        /\ out' = out
    <3> DEFINE r == intr_keyboard_handler(kbd, \hE0)
    <3>1. /\ r.k \in KeyboardState /\ r.k.ext_scan_code = TRUE
          /\ r.k.ctrl_status = kbd.ctrl_status /\ r.k.alt_status = kbd.alt_status
          /\ r.k.shift_status = kbd.shift_status
          /\ r.k.caps_lock_status = kbd.caps_lock_status
          /\ r.char = NO_CHAR
      BY <1>15, <1>16, FirstByte
    <3>2. kbd' = r.k /\ out' = IF r.char = NO_CHAR THEN out ELSE Append(out, r.char)
      BY <1>8, <2>1
    <3> HIDE DEF r
    <3> QED  BY <3>1, <3>2
  <2>3. Waiting(n, at2)'
    BY <1>3, <1>9, <1>10, <1>14, <1>16, <2>2
  <2>4. Decoded(n)'
    <3>1. \A i \in 1 .. n : events'[i] = events[i]
      BY <1>8
    <3> QED  BY <1>4, <2>2, <3>1, DecodedSame
  <2>5. TypingTypeOK'
    BY <1>1, <1>7, <1>8, <2>2 DEF TypingTypeOK
  <2>6. n \in 0 .. Len(events')
    BY <1>2, <1>3, <1>8
  <2> QED  BY <1>12, <1>18, <2>3, <2>4, <2>5, <2>6 DEF KeysInv
<1>17. CASE kbd.ext_scan_code <=> Extended(events[n + 1][1])
  <2>1. at[n + 1 + 1] = 1
    <3>1. CASE kbd.ext_scan_code
      BY <1>9, <1>11, <1>17, <3>1
    <3>2. CASE ~kbd.ext_scan_code
      BY <1>9, <1>11, <1>17, <3>2
    <3> QED  BY <3>1, <3>2
  <2>2. Head(wire) = Low(events[n + 1][1], events[n + 1][2])
    BY <1>7, <1>11, <2>1
  <2>3. n < Len(events)
    BY <1>2, <1>10
  <2>4. /\ kbd' \in KeyboardState /\ out' \in Seq(Char) /\ kbd'.ext_scan_code = FALSE
        /\ Decoded(n + 1)'
    BY <1>1, <1>4, <1>8, <1>17, <1>18, <2>2, <2>3, DecodedNext
  <2>5. Waiting(n + 1, at2)'
    <3>1. n + 1 \in Nat /\ n <= n + 1 /\ n + 1 <= N
      BY <1>10
    <3> QED  BY <1>14, <2>1, <2>4, <3>1
  <2>6. TypingTypeOK'
    BY <1>1, <1>7, <1>8, <2>4 DEF TypingTypeOK
  <2>7. n + 1 \in 0 .. Len(events')
    BY <1>2, <1>8, <1>10
  <2> QED  BY <1>12, <1>18, <2>4, <2>5, <2>6, <2>7 DEF KeysInv
<1> QED  BY <1>9, <1>16, <1>17

-----------------------------------------------------------------------------
(* Theorems                                                                *)

\* The invariant holds at first.
LEMMA KeysInit ==
  ASSUME TypingInit
  PROVE  KeysInv
<1>1. /\ kbd = keyboard_init /\ wire = << >> /\ out = << >> /\ held = {} /\ events = << >>
  BY DEF TypingInit
<1>2. /\ kbd \in KeyboardState /\ ~kbd.ext_scan_code /\ ~kbd.ctrl_status
      /\ ~kbd.alt_status /\ ~kbd.shift_status /\ ~kbd.caps_lock_status
  BY <1>1 DEF keyboard_init, KeyboardState
<1>3. TypingTypeOK
  BY <1>1, <1>2 DEF TypingTypeOK
<1>4. Decoded(0)
  <2>1. ~LastDown(0, Ctrl) /\ ~LastDown(0, Alt) /\ ~LastDown(0, Shift)
    BY DEF LastDown
  <2>2. Printing(0) = {} /\ Cardinality({}) = 0
    BY FS_EmptySet DEF Printing
  <2>3. ~CapsOn(0)
    <3>1. {i \in 1 .. 0 : events[i] = <<CAPS_LOCK_MAKE, FALSE>>} = {}
      OBVIOUS
    <3> QED  BY <2>2, <3>1 DEF CapsOn
  <2>4. PrintedUpTo(0)
    BY <1>1, <2>2 DEF PrintedUpTo
  <2> QED  BY <1>2, <2>1, <2>3, <2>4 DEF Decoded
<1> DEFINE at == [i \in Nat |-> 0]
<1>5. at \in [Nat -> Int] /\ at[1] = 0
  OBVIOUS
<1> HIDE DEF at
<1>6. Waiting(0, at)
  BY <1>1, <1>2, <1>5 DEF Waiting
<1>7. 0 \in 0 .. Len(events)
  BY <1>1
<1>8. HeldInv
  <2>1. Down(0) = {}
    BY DEF Down
  <2>2. \A n \in 0 .. 0 : \A keys \in Pairs : HasLast(n, keys)
    BY DEF HasLast
  <2>3. Len(events) = 0 /\ held = {}
    BY <1>1
  <2> QED  BY <2>1, <2>2, <2>3, Zenon DEF HeldInv
<1> QED  BY <1>3, <1>4, <1>5, <1>6, <1>7, <1>8 DEF KeysInv

\* The inductive invariant of the decoder under a keyboard: whatever waits on
\* the wire is the rest of what the keys did, statuses and output are those of
\* what has been read, and the events say which keys are down.
THEOREM KeysInvariant == TypingSpec => []KeysInv
<1>1. TypingInit => KeysInv
  BY KeysInit
<1>2. KeysInv /\ [TypingNext]_typingVars => KeysInv'
  <2> SUFFICES ASSUME KeysInv, [TypingNext]_typingVars PROVE KeysInv'
    OBVIOUS
  <2>2. ASSUME NEW k \in Key, Press(k) PROVE KeysInv'
    <3>1. Event(k, TRUE) /\ held' = IF TRUE THEN held \cup {k} ELSE held \ {k}
      BY <2>2 DEF Press
    <3>2. TRUE \in BOOLEAN
      OBVIOUS
    <3> QED  BY <3>1, <3>2, EventInv
  <2>3. ASSUME NEW k \in Key, Release(k) PROVE KeysInv'
    <3>1. Event(k, FALSE) /\ held' = IF FALSE THEN held \cup {k} ELSE held \ {k}
      BY <2>3 DEF Release
    <3>2. FALSE \in BOOLEAN
      OBVIOUS
    <3> QED  BY <3>1, <3>2, EventInv
  <2>4. CASE KeyIntr
    BY <2>4, KeyIntrInv
  <2>5. CASE UNCHANGED typingVars
    <3>1. /\ kbd' = kbd /\ wire' = wire /\ out' = out /\ held' = held /\ events' = events
      BY <2>5 DEF typingVars
    <3>2. TypingTypeOK'
      BY <3>1 DEF KeysInv, TypingTypeOK
    <3>3. PICK n \in 0 .. Len(events) : \E at \in [Nat -> Int] : Waiting(n, at) /\ Decoded(n)
      BY DEF KeysInv
    <3>4. PICK at : at \in [Nat -> Int] /\ Waiting(n, at) /\ Decoded(n)
      BY <3>3
    <3>5. Waiting(n, at)'
      BY <3>1, <3>4 DEF Waiting
    <3>6. Decoded(n)'
      BY <3>1, <3>4, DecodedSame
    <3>7. HeldInv'
      BY <3>1, HeldSame DEF KeysInv, TypingTypeOK
    <3> QED  BY <3>1, <3>2, <3>4, <3>5, <3>6, <3>7 DEF KeysInv
  <2> QED  BY <2>2, <2>3, <2>4, <2>5 DEF TypingNext
<1> QED  BY <1>1, <1>2, PTL DEF TypingSpec

\* When every event is read, what is decoded is that of all of them.
LEMMA AllDecoded ==
  ASSUME KeysInv, wire = << >>
  PROVE  ~kbd.ext_scan_code /\ Decoded(Len(events))
<1>1. TypingTypeOK
  BY DEF KeysInv
<1>2. PICK N \in Nat : N = Len(events)
  BY <1>1 DEF TypingTypeOK
<1>3. PICK n \in Nat : n <= N /\ \E at \in [Nat -> Int] : Waiting(n, at) /\ Decoded(n)
  BY <1>2 DEF KeysInv
<1>4. PICK at : at \in [Nat -> Int] /\ Waiting(n, at) /\ Decoded(n)
  BY <1>3
<1>5. /\ at[n + 1] = IF kbd.ext_scan_code THEN -1 ELSE 0
      /\ at[N + 1] = 0
      /\ kbd.ext_scan_code => n < N
      /\ \A i, j \in n + 1 .. N + 1 : i < j => at[i] < at[j]
      /\ \A i \in n + 1 .. N :
           at[i + 1] = at[i] + (IF Extended(events[i][1]) THEN 2 ELSE 1)
      /\ kbd.ext_scan_code => Extended(events[n + 1][1])
  BY <1>2, <1>4 DEF Waiting
<1>6. ~(n < N)
  <2> SUFFICES ASSUME n < N PROVE FALSE
    OBVIOUS
  <2>1. at[n + 1 + 1] = at[n + 1] + (IF Extended(events[n + 1][1]) THEN 2 ELSE 1)
    <3>1. n + 1 \in n + 1 .. N
      OBVIOUS
    <3> QED  BY <1>5, <3>1
  <2>2. at[n + 1 + 1] >= 1
    <3>1. CASE kbd.ext_scan_code
      BY <1>5, <2>1, <3>1
    <3>2. CASE ~kbd.ext_scan_code
      BY <1>5, <2>1, <3>2
    <3> QED  BY <3>1, <3>2
  <2>3. n + 1 + 1 \in n + 1 .. N + 1 /\ N + 1 \in n + 1 .. N + 1
    OBVIOUS
  <2>4. n + 1 + 1 < N + 1 => at[n + 1 + 1] < at[N + 1]
    BY <1>5, <2>3
  <2>5. n + 1 + 1 = N + 1 \/ n + 1 + 1 < N + 1
    OBVIOUS
  <2>6. \A i \in Nat : at[i] \in Int
    BY <1>4
  <2> QED  BY <1>5, <2>2, <2>4, <2>5, <2>6
<1>7. n = N
  BY <1>3, <1>6
<1> QED  BY <1>2, <1>4, <1>5, <1>6, <1>7

\* Any sequence of presses and releases, however its bytes meet interrupts,
\* leaves no prefix pending and caps lock as it should be, and sets the flag of
\* two keys exactly if one of them is down and the other has not been released
\* since: the flag they share is clear under a key only after that release.
THEOREM StatusesFollow == TypingSpec => []StatusFollowsKeys
<1>1. ASSUME KeysInv, wire = << >>, NEW keys \in Pairs
      PROVE  LastDown(Len(events), keys) <=> held \cap keys # {} /\ ~LetGo(Len(events), keys)
  <2>1. PICK N \in Nat : N = Len(events) /\ events \in Seq(Key \X BOOLEAN)
    BY <1>1 DEF KeysInv, TypingTypeOK
  <2>2. N \in 0 .. N
    OBVIOUS
  <2>3. held = Down(N) /\ HasLast(N, keys)
    BY <1>1, <2>1, <2>2 DEF KeysInv, HeldInv
  <2>4. LastDown(N, keys) <=> Down(N) \cap keys # {} /\ ~LetGo(N, keys)
    BY <2>1, <2>3, LastDownIs
  <2> QED  BY <2>1, <2>3, <2>4, Zenon
<1>2. KeysInv => StatusFollowsKeys
  <2> SUFFICES ASSUME KeysInv, wire = << >> PROVE StatusFollowsKeys
    BY DEF StatusFollowsKeys
  <2>1. ~kbd.ext_scan_code /\ Decoded(Len(events))
    BY AllDecoded
  <2>2. Ctrl \in Pairs /\ Alt \in Pairs /\ Shift \in Pairs
    BY DEF Pairs
  <2>3. \A keys \in Pairs :
          LastDown(Len(events), keys) <=> held \cap keys # {} /\ ~LetGo(Len(events), keys)
    BY <1>1
  <2> QED  BY <2>1, <2>2, <2>3, Zenon DEF Decoded, StatusFollowsKeys
<1> QED  BY <1>2, KeysInvariant, PTL

\* At every moment the handler has passed on what a beginning of the events
\* prints, in order and in the right case, and nothing else.
THEOREM TypedIsPrinted == TypingSpec => []PrintsWhatWasTyped
<1>1. KeysInv => PrintsWhatWasTyped
  <2> SUFFICES ASSUME KeysInv PROVE PrintsWhatWasTyped
    OBVIOUS
  <2>1. \E n \in 0 .. Len(events) : PrintedUpTo(n)
    BY DEF KeysInv, Decoded
  <2>2. wire = << >> => PrintedUpTo(Len(events))
    BY AllDecoded DEF Decoded
  <2> QED  BY <2>1, <2>2 DEF PrintsWhatWasTyped
<1> QED  BY <1>1, KeysInvariant, PTL

-----------------------------------------------------------------------------
(* The screen                                                              *)

Byte == 0 .. BYTE - 1
Registers == [index : {"high", "low"}, high : Byte, low : Byte]

\* The data port reaches the register that the index selects.
LEMMA Access ==
  ASSUME NEW c \in Registers, NEW b \in Byte
  PROVE  /\ c.index \in {"high", "low"}
         /\ c.index = "high" => c[c.index] = c.high
         /\ c.index = "low" => c[c.index] = c.low
         /\ c.index = "high" => [c EXCEPT ![c.index] = b] = [c EXCEPT !.high = b]
         /\ c.index = "low" => [c EXCEPT ![c.index] = b] = [c EXCEPT !.low = b]
<1>1. c.index \in {"high", "low"}
  BY DEF Registers
<1>2. c.index = "high" => c[c.index] = c.high
  OBVIOUS
<1>3. c.index = "low" => c[c.index] = c.low
  OBVIOUS
<1>4. c.index = "high" => [c EXCEPT ![c.index] = b] = [c EXCEPT !.high = b]
  OBVIOUS
<1>5. c.index = "low" => [c EXCEPT ![c.index] = b] = [c EXCEPT !.low = b]
  OBVIOUS
<1> QED
  BY <1>1, <1>2, <1>3, <1>4, <1>5

\* Quotient and remainder.
LEMMA Divide ==
  ASSUME NEW a \in Nat, NEW b \in Nat \ {0}
  PROVE  /\ a \div b \in Nat /\ a % b \in 0 .. b - 1
         /\ a = (a \div b) * b + (a % b)
OBVIOUS

\* They are the only ones.
LEMMA DivideIs ==
  ASSUME NEW b \in Nat \ {0}, NEW q \in Nat, NEW r \in 0 .. b - 1
  PROVE  (q * b + r) \div b = q /\ (q * b + r) % b = r
<1> DEFINE a == q * b + r
           q1 == a \div b
           r1 == a % b
<1>1. a \in Nat
  OBVIOUS
<1>2. q1 \in Nat /\ r1 \in 0 .. b - 1 /\ a = q1 * b + r1
  BY <1>1, Divide
<1>3. ASSUME NEW x \in Nat, NEW y \in Nat, NEW s \in 0 .. b - 1, NEW t \in 0 .. b - 1,
             x * b + s = y * b + t, x < y
      PROVE  FALSE
  <2>1. (y - x) * b >= b
    BY <1>3
  <2>2. (y - x) * b = s - t
    BY <1>3
  <2> QED
    BY <2>1, <2>2, <1>3
<1>4. q1 = q
  BY <1>2, <1>3
<1> QED
  BY <1>2, <1>4

-----------------------------------------------------------------------------
(* What put_char does between reading and writing the cursor.              *)

Place == 0 .. SCREEN_MAX - 1

\* v holds a character for each place of the screen.
Screenful(v) == v = [i \in Place |-> v[i]]

\* The screen and the ranges of a register and of a position in numbers.
LEMMA Sizes ==
  /\ COLS \in Nat \ {0} /\ ROWS \in Nat \ {0} /\ BYTE \in Nat \ {0}
  /\ SCREEN_MAX \in Nat \ {0} /\ COLS <= SCREEN_MAX
  /\ BYTE * BYTE \in Nat \ {0} /\ SCREEN_MAX < BYTE * BYTE
<1>1. COLS \in Nat \ {0} /\ ROWS \in Nat \ {0} /\ BYTE \in Nat \ {0}
  BY TerminalAssumption, ScreenAssumption
<1>2. SCREEN_MAX \in Nat \ {0} /\ COLS <= SCREEN_MAX
  BY <1>1 DEF SCREEN_MAX
<1>3. BYTE * BYTE \in Nat \ {0}
  BY <1>1
<1>4. SCREEN_MAX < BYTE * BYTE
  BY <1>2, <1>3, ScreenAssumption DEF UINT16
<1> QED
  BY <1>1, <1>2, <1>3, <1>4

\* A position fits the two registers, and they give it back.
LEMMA TwoBytes ==
  ASSUME NEW pos \in UINT16
  PROVE  /\ pos \div BYTE \in Byte /\ pos % BYTE \in Byte
         /\ (pos \div BYTE) * BYTE + (pos % BYTE) = pos
<1>1. BYTE \in Nat \ {0} /\ pos \in Nat /\ pos < BYTE * BYTE
  BY Sizes DEF UINT16
<1>2. /\ pos \div BYTE \in Nat /\ pos % BYTE \in 0 .. BYTE - 1
      /\ pos = (pos \div BYTE) * BYTE + (pos % BYTE)
  BY <1>1, Divide
<1>3. pos \div BYTE < BYTE
  <2> SUFFICES ASSUME pos \div BYTE >= BYTE PROVE FALSE
    BY <1>1, <1>2
  <2>1. (pos \div BYTE) * BYTE >= BYTE * BYTE
    BY <1>1, <1>2
  <2> QED
    BY <2>1, <1>1, <1>2
<1> QED
  BY <1>1, <1>2, <1>3 DEF Byte

\* Two registers hold a position.
LEMMA OnePosition ==
  ASSUME NEW h \in Byte, NEW l \in Byte
  PROVE  h * BYTE \in UINT16 /\ h * BYTE + l \in UINT16
<1>1. BYTE \in Nat \ {0} /\ h \in Nat /\ l \in Nat /\ h <= BYTE - 1 /\ l <= BYTE - 1
  BY Sizes DEF Byte
<1>2. h * BYTE <= (BYTE - 1) * BYTE
  BY <1>1
<1>3. (BYTE - 1) * BYTE = BYTE * BYTE - BYTE
  BY <1>1
<1> QED
  BY <1>1, <1>2, <1>3 DEF UINT16

\* A whole screen and a position stay such, and a position found anywhere is
\* brought back to the screen by any character but a backspace.
LEMMA DrawRange ==
  ASSUME NEW v, NEW pos \in UINT16, NEW c, Screenful(v)
  PROVE  /\ Screenful(draw(v, pos, c).video)
         /\ draw(v, pos, c).pos \in UINT16
         /\ c # BS => draw(v, pos, c).pos < SCREEN_MAX
<1>0. PICK M \in Nat : M = BYTE * BYTE
  BY Sizes
<1>1. /\ M \in Nat \ {0} /\ SCREEN_MAX \in Nat /\ SCREEN_MAX < M
      /\ COLS \in Nat \ {0} /\ COLS <= SCREEN_MAX /\ pos \in Nat /\ pos < M
  BY <1>0, Sizes DEF UINT16
<1>2. UINT16 = 0 .. M - 1
  BY <1>0 DEF UINT16
<1>3. \A n \in Int : n % M \in 0 .. M - 1
  BY <1>1
<1>4. \A i, x : Screenful(show(v, i, x))
  BY DEF show, Screenful
<1>5. \A w : Screenful(w) => Screenful(roll(w))
  BY DEF roll, Screenful
<1>6. ASSUME NEW w, NEW n \in 0 .. M - 1, Screenful(w)
      PROVE  /\ Screenful(CHECK_OUT_OF_SCREEN(w, n).video)
             /\ CHECK_OUT_OF_SCREEN(w, n).pos \in 0 .. M - 1
             /\ CHECK_OUT_OF_SCREEN(w, n).pos < SCREEN_MAX
  BY <1>1, <1>5, <1>6 DEF CHECK_OUT_OF_SCREEN, out_of_screen
<1>7. CASE c = NL
  <2> DEFINE n == (pos - (pos % COLS) + COLS) % M
  <2>0. pos - (pos % COLS) + COLS \in Int
    BY <1>1
  <2>1. n \in 0 .. M - 1
    BY <2>0, <1>3
  <2>2. draw(v, pos, c) = CHECK_OUT_OF_SCREEN(v, n)
    BY <1>0, <1>7, TerminalAssumption DEF draw
  <2> QED
    BY <2>1, <2>2, <1>2, <1>6
<1>8. CASE c = BS
  <2> DEFINE n == (pos - 1) % M
  <2>0. pos - 1 \in Int
    BY <1>1
  <2>1. n \in 0 .. M - 1
    BY <2>0, <1>3
  <2>2. draw(v, pos, c) = [video |-> show(v, pos - 1, BLANK), pos |-> n]
    BY <1>0, <1>8, TerminalAssumption DEF draw
  <2> QED
    BY <2>1, <2>2, <1>2, <1>4, <1>8
<1>9. CASE c # NL /\ c # BS
  <2> DEFINE n == (pos + 1) % M
  <2>0. pos + 1 \in Int
    BY <1>1
  <2>1. n \in 0 .. M - 1
    BY <2>0, <1>3
  <2>2. draw(v, pos, c) = CHECK_OUT_OF_SCREEN(show(v, pos, c), n)
    BY <1>0, <1>9 DEF draw
  <2> QED
    BY <2>1, <2>2, <1>2, <1>4, <1>6
<1> QED
  BY <1>7, <1>8, <1>9

-----------------------------------------------------------------------------
(* Registers, screen and locals keep their ranges.                         *)

Between == {"ready", "printing"}
Reading == {"get_high", "read_high", "get_low", "read_low", "draw"}
Writing == {"set_high", "write_high", "set_low", "write_low"}
Stage == Between \union Reading \union Writing

\* The low byte is added to a local that holds a high byte alone.
HalfRead ==
  \A p \in Printer :
    pc[p] \in {"get_low", "read_low"} => \E h \in Byte : cur_pos[p] = h * BYTE

RangeInv ==
  /\ crt \in Registers
  /\ Screenful(video)
  /\ pc \in [Printer -> Stage]
  /\ cur_pos \in [Printer -> UINT16]
  /\ text = [p \in Printer |-> text[p]]
  /\ HalfRead
  /\ Screenful(last.video) /\ last.cursor \in UINT16

\* The registers give a position.
LEMMA CursorRange ==
  ASSUME crt \in Registers
  PROVE  cursor \in UINT16
<1>1. crt.high \in Byte /\ crt.low \in Byte
  BY DEF Registers
<1> QED
  BY <1>1, OnePosition DEF cursor

\* RangeInv holds at the start.
LEMMA RangeInit == Init => RangeInv
<1> SUFFICES ASSUME Init PROVE RangeInv
  OBVIOUS
<1>1. crt \in Registers
  <2>1. PICK pos \in 0 .. SCREEN_MAX - 1 :
          crt = [index |-> "low", high |-> pos \div BYTE, low |-> pos % BYTE]
    BY DEF Init
  <2>2. pos \in UINT16
    BY Sizes DEF UINT16
  <2> QED
    BY <2>1, <2>2, TwoBytes DEF Registers
<1>2. Screenful(boot_screen) /\ 0 \in UINT16
  BY Sizes DEF Screenful, boot_screen, Place, UINT16
<1>3. Screenful(video) /\ Screenful(last.video) /\ last.cursor \in UINT16
  BY <1>2 DEF Init, overlapped
<1>4. pc \in [Printer -> Stage] /\ HalfRead
  BY DEF Init, HalfRead, Stage, Between
<1>5. cur_pos \in [Printer -> UINT16] /\ text = [p \in Printer |-> text[p]]
  BY <1>2 DEF Init
<1> QED
  BY <1>1, <1>3, <1>4, <1>5 DEF RangeInv

\* What a printer notes of the screen is a screen and a position.
LEMMA NoteRange ==
  ASSUME RangeInv, NEW c, Note(c)
  PROVE  Screenful(last'.video) /\ last'.cursor \in UINT16
<1>1. Screenful(boot_screen) /\ 0 \in UINT16
  BY Sizes DEF Screenful, boot_screen, Place, UINT16
<1>2. cursor \in UINT16 /\ Screenful(video)
  BY CursorRange DEF RangeInv
<1>3. CASE Alone
  BY <1>2, <1>3 DEF Note
<1>4. CASE ~Alone
  BY <1>1, <1>4 DEF Note, overlapped
<1> QED
  BY <1>3, <1>4

\* RangeInv is inductive.
LEMMA RangeStep == RangeInv /\ [Next]_vars => RangeInv'
<1> SUFFICES ASSUME RangeInv, [Next]_vars PROVE RangeInv'
  OBVIOUS
<1> USE DEF Stage, Between, Reading, Writing
<1>0. /\ crt \in Registers /\ Screenful(video) /\ pc \in [Printer -> Stage]
      /\ cur_pos \in [Printer -> UINT16] /\ text = [p \in Printer |-> text[p]]
      /\ HalfRead /\ Screenful(last.video) /\ last.cursor \in UINT16
  BY DEF RangeInv
<1>1. ASSUME NEW p \in Printer, NEW s, PutStr(p, s) PROVE RangeInv'
  BY <1>0, <1>1 DEF PutStr, Step, RangeInv, HalfRead
<1>2. ASSUME NEW p \in Printer, Returned(p) PROVE RangeInv'
  BY <1>0, <1>2 DEF Returned, Step, RangeInv, HalfRead
<1>3. ASSUME NEW p \in Printer, PutChar(p) PROVE RangeInv'
  <2>1. Screenful(last'.video) /\ last'.cursor \in UINT16
    BY <1>3, NoteRange DEF PutChar
  <2>2. pc' \in [Printer -> Stage] /\ HalfRead'
    BY <1>0, <1>3 DEF PutChar, Step, HalfRead
  <2> QED
    BY <1>0, <1>3, <2>1, <2>2 DEF PutChar, RangeInv
<1>4. ASSUME NEW p \in Printer, NEW from, NEW index \in {"high", "low"}, NEW to \in Stage,
             Select(p, from, index, to),
             from = "get_low" <=> to = "read_low", to # "get_low"
      PROVE  RangeInv'
  <2>1. crt' \in Registers
    BY <1>0, <1>4 DEF Select, Registers
  <2>2. pc' \in [Printer -> Stage] /\ HalfRead'
    BY <1>0, <1>4 DEF Select, Step, HalfRead
  <2> QED
    BY <1>0, <1>4, <2>1, <2>2 DEF Select, RangeInv
<1>5. ASSUME NEW p \in Printer, ReadHigh(p) PROVE RangeInv'
  <2>1. PICK h \in Byte : h = crt[crt.index]
    BY <1>0, Access DEF Registers
  <2>2. h * BYTE \in UINT16
    BY <2>1, OnePosition
  <2>3. cur_pos' = [cur_pos EXCEPT ![p] = h * BYTE]
    BY <1>5, <2>1 DEF ReadHigh
  <2>4. cur_pos' \in [Printer -> UINT16]
    BY <1>0, <2>2, <2>3
  <2>5. pc' \in [Printer -> Stage] /\ HalfRead'
    BY <1>0, <1>5, <2>3 DEF ReadHigh, Step, HalfRead
  <2> QED
    BY <1>0, <1>5, <2>4, <2>5 DEF ReadHigh, RangeInv
<1>6. ASSUME NEW p \in Printer, ReadLow(p) PROVE RangeInv'
  <2>1. PICK l \in Byte : l = crt[crt.index]
    BY <1>0, Access DEF Registers
  <2>2. PICK h \in Byte : cur_pos[p] = h * BYTE
    BY <1>0, <1>6 DEF ReadLow, Step, HalfRead
  <2>3. h * BYTE + l \in UINT16
    BY <2>1, <2>2, OnePosition
  <2>4. cur_pos' = [cur_pos EXCEPT ![p] = h * BYTE + l]
    BY <1>0, <1>6, <2>1, <2>2 DEF ReadLow
  <2>5. cur_pos' \in [Printer -> UINT16]
    BY <1>0, <2>3, <2>4
  <2>6. pc' \in [Printer -> Stage] /\ HalfRead'
    BY <1>0, <1>6, <2>4 DEF ReadLow, Step, HalfRead
  <2> QED
    BY <1>0, <1>6, <2>5, <2>6 DEF ReadLow, RangeInv
<1>7. ASSUME NEW p \in Printer, Draw(p) PROVE RangeInv'
  <2>1. PICK d : d = draw(video, cur_pos[p], Head(text[p]))
    OBVIOUS
  <2>2. Screenful(d.video) /\ d.pos \in UINT16
    BY <1>0, <2>1, DrawRange
  <2>3. video' = d.video /\ cur_pos' = [cur_pos EXCEPT ![p] = d.pos]
    BY <1>7, <2>1 DEF Draw
  <2>4. Screenful(video)' /\ cur_pos' \in [Printer -> UINT16]
    BY <1>0, <2>2, <2>3 DEF Screenful
  <2>5. pc' \in [Printer -> Stage] /\ HalfRead'
    BY <1>0, <1>7, <2>3 DEF Draw, Step, HalfRead
  <2>6. text' = [q \in Printer |-> text'[q]]
    BY <1>0, <1>7 DEF Draw
  <2> QED
    BY <1>0, <1>7, <2>4, <2>5, <2>6 DEF Draw, RangeInv
<1>8. ASSUME NEW p \in Printer, NEW from, NEW byte \in Byte, NEW to \in Stage,
             Write(p, from, byte, to), to \notin {"get_low", "read_low"}
      PROVE  RangeInv'
  <2>1. crt' = [crt EXCEPT !.high = byte] \/ crt' = [crt EXCEPT !.low = byte]
    BY <1>0, <1>8, Access DEF Write
  <2>2. crt' \in Registers
    BY <1>0, <2>1 DEF Registers
  <2>3. pc' \in [Printer -> Stage] /\ HalfRead'
    BY <1>0, <1>8 DEF Write, Step, HalfRead
  <2> QED
    BY <1>0, <1>8, <2>2, <2>3 DEF Write, RangeInv
<1>9. ASSUME HandlerPutChar(NL) PROVE RangeInv'
  <2>1. PICK d : d = draw(video, cursor, NL)
    OBVIOUS
  <2>2. Screenful(d.video) /\ d.pos \in UINT16
    BY <1>0, <2>1, DrawRange, CursorRange
  <2>3. /\ video' = d.video
        /\ crt' = [index |-> "low", high |-> d.pos \div BYTE, low |-> d.pos % BYTE]
    BY <1>9, <2>1 DEF HandlerPutChar
  <2>4. crt' \in Registers
    BY <2>2, <2>3, TwoBytes DEF Registers
  <2>5. Screenful(video)'
    BY <2>2, <2>3 DEF Screenful
  <2>6. Screenful(last'.video) /\ last'.cursor \in UINT16
    BY <1>9, NoteRange DEF HandlerPutChar
  <2> QED
    BY <1>0, <1>9, <2>4, <2>5, <2>6 DEF HandlerPutChar, RangeInv, HalfRead
<1>10. CASE UNCHANGED vars
  BY <1>0, <1>10 DEF vars, RangeInv, HalfRead
<1>11. ASSUME NEW p \in Printer, get_cursor(p) PROVE RangeInv'
  BY <1>4, <1>5, <1>6, <1>11 DEF get_cursor
<1>12. ASSUME NEW p \in Printer, set_cursor(p) PROVE RangeInv'
  <2>1. cur_pos[p] \div BYTE \in Byte /\ cur_pos[p] % BYTE \in Byte
    BY <1>0, TwoBytes
  <2> QED
    BY <1>4, <1>8, <1>12, <2>1 DEF set_cursor
<1> QED
  BY <1>1, <1>2, <1>3, <1>7, <1>9, <1>10, <1>11, <1>12 DEF Next, Finished

\* RangeInv holds whatever overlaps.
THEOREM ScreenRanges == Spec => []RangeInv
  BY RangeInit, RangeStep, PTL DEF Spec

\* The registers of the cursor and the printers' locals keep to their widths,
\* whatever overlaps: no position is wider than the uint16_t it is kept in.
THEOREM ScreenTypeCorrect == Spec => []TypeOK
<1>1. RangeInv => TypeOK
  BY DEF RangeInv, TypeOK, Registers, Byte
<1> QED
  BY <1>1, ScreenRanges, PTL

-----------------------------------------------------------------------------
(* A put_char that runs alone goes through its stages undisturbed.         *)

\* What the last put_char makes of the screen and the cursor it found.
result == draw(last.video, last.cursor, last.char)

\* p is in put_char and no one else is.
Only(p) == \A q \in Printer : pc[q] \in Between <=> q # p

\* How far p has come with the put_char that last notes.
Midway(p) ==
  /\ pc[p] \in Reading =>
       /\ video = last.video /\ cursor = last.cursor
       /\ Head(text[p]) = last.char
  /\ pc[p] = "read_high" => crt.index = "high"
  /\ pc[p] = "read_low" => crt.index = "low"
  /\ pc[p] \in {"get_low", "read_low"} => cur_pos[p] = crt.high * BYTE
  /\ pc[p] = "draw" => cur_pos[p] = last.cursor
  /\ pc[p] \in Writing => video = result.video /\ cur_pos[p] = result.pos
  /\ pc[p] = "write_high" => crt.index = "high"
  /\ pc[p] = "write_low" => crt.index = "low"
  /\ pc[p] \in {"set_low", "write_low"} => crt.high = cur_pos[p] \div BYTE

SoloInv ==
  last.alone =>
    \/ Alone /\ video = result.video /\ cursor = result.pos
    \/ \E p \in Printer : Only(p) /\ Midway(p)

\* Who is in put_char when a printer takes a step in it.
LEMMA OnlyOne ==
  ASSUME SoloInv, last.alone, NEW p \in Printer, pc[p] \notin Between
  PROVE  Only(p) /\ Midway(p)
  BY DEF SoloInv, Alone, Only, Between

\* SoloInv is inductive, given the ranges.
LEMMA SoloStep == RangeInv /\ SoloInv /\ [Next]_vars => SoloInv'
<1> SUFFICES ASSUME RangeInv, SoloInv, [Next]_vars PROVE SoloInv'
  OBVIOUS
<1>0. /\ crt \in Registers /\ Screenful(video) /\ pc \in [Printer -> Stage]
      /\ cur_pos \in [Printer -> UINT16] /\ text = [p \in Printer |-> text[p]]
      /\ crt.index \in {"high", "low"} /\ crt.high \in Byte /\ crt.low \in Byte
  BY DEF RangeInv, Registers
\* A step of p inside put_char.
<1>1. ASSUME NEW p \in Printer, pc[p] \notin Between, NEW to \in Stage \ Between,
             pc' = [pc EXCEPT ![p] = to], last' = last,
             Only(p) /\ Midway(p) => Midway(p)'
      PROVE  SoloInv'
  <2> SUFFICES ASSUME last.alone PROVE Only(p)' /\ Midway(p)'
    BY <1>1 DEF SoloInv
  <2>1. Only(p) /\ Midway(p)
    BY <1>1, OnlyOne
  <2>2. Only(p)'
    BY <1>0, <1>1, <2>1 DEF Only
  <2> QED
    BY <1>1, <2>1, <2>2
\* A step of p outside put_char that leaves the screen alone.
<1>2. ASSUME NEW p \in Printer, NEW to \in Between, pc[p] \in Between,
             pc' = [pc EXCEPT ![p] = to],
             \A q \in Printer \ {p} : text'[q] = text[q],
             UNCHANGED <<crt, video, cur_pos, last>>
      PROVE  SoloInv'
  <2> SUFFICES ASSUME last.alone
               PROVE  \/ (Alone /\ video = result.video /\ cursor = result.pos)'
                      \/ \E q \in Printer : Only(q)' /\ Midway(q)'
    BY <1>2 DEF SoloInv
  <2>1. CASE Alone /\ video = result.video /\ cursor = result.pos
    <3>1. Alone'
      BY <1>0, <1>2, <2>1 DEF Alone, Between
    <3>2. (video = result.video /\ cursor = result.pos)'
      BY <1>2, <2>1 DEF result, cursor
    <3> QED
      BY <3>1, <3>2
  <2>2. CASE \E q \in Printer : Only(q) /\ Midway(q)
    <3>1. PICK q \in Printer : Only(q) /\ Midway(q)
      BY <2>2
    <3>2. q # p
      BY <1>2, <3>1 DEF Only
    <3>3. pc'[q] = pc[q] /\ text'[q] = text[q]
      BY <1>0, <1>2, <3>2
    <3>4. Midway(q)'
      BY <1>2, <3>1, <3>3 DEF Midway, result, cursor
    <3>5. Only(q)'
      BY <1>0, <1>2, <3>1, <3>2 DEF Only
    <3> QED
      BY <3>4, <3>5
  <2> QED
    BY <2>1, <2>2 DEF SoloInv
<1>3. ASSUME NEW p \in Printer, NEW s, PutStr(p, s) PROVE SoloInv'
  <2>1. \A q \in Printer \ {p} : text'[q] = text[q]
    BY <1>0, <1>3 DEF PutStr
  <2> QED
    BY <1>2, <1>3, <2>1 DEF PutStr, Step, Between
<1>4. ASSUME NEW p \in Printer, Returned(p) PROVE SoloInv'
  BY <1>2, <1>4 DEF Returned, Step, Between
<1>5. ASSUME NEW p \in Printer, PutChar(p) PROVE SoloInv'
  <2> SUFFICES ASSUME last'.alone PROVE Only(p)' /\ Midway(p)'
    BY DEF SoloInv
  <2>1. Alone /\ last' = [alone |-> TRUE, char |-> Head(text[p]), video |-> video,
                          cursor |-> cursor]
    BY <1>5 DEF PutChar, Note, overlapped
  <2>2. pc' = [pc EXCEPT ![p] = "get_high"]
    BY <1>5 DEF PutChar, Step
  <2>3. Only(p)'
    BY <1>0, <2>1, <2>2 DEF Only, Alone, Between
  <2>4. cursor' = cursor /\ video' = video /\ text' = text
    BY <1>5 DEF PutChar, cursor
  <2> QED
    BY <1>0, <2>1, <2>2, <2>3, <2>4 DEF Midway, Reading, Writing
<1>6. ASSUME NEW p \in Printer, get_cursor(p) PROVE SoloInv'
  <2>1. CASE Select(p, "get_high", "high", "read_high")
    <3>1. Midway(p) => Midway(p)'
      BY <1>0, <2>1 DEF Select, Step, Midway, Reading, Writing, cursor, Registers
    <3> QED
      BY <1>1, <2>1, <3>1 DEF Select, Step, Stage, Between, Reading
  <2>2. CASE ReadHigh(p)
    <3>1. Midway(p) => Midway(p)'
      <4> SUFFICES ASSUME Midway(p) PROVE Midway(p)'
        OBVIOUS
      <4>1. crt.index = "high"
        BY <2>2 DEF ReadHigh, Step, Midway
      <4>2. cur_pos'[p] = crt.high * BYTE
        BY <1>0, <2>2, <4>1, Access DEF ReadHigh
      <4> QED
        BY <1>0, <2>2, <4>2 DEF ReadHigh, Step, Midway, Reading, Writing, cursor
    <3> QED
      BY <1>1, <2>2, <3>1 DEF ReadHigh, Step, Stage, Between, Reading
  <2>3. CASE Select(p, "get_low", "low", "read_low")
    <3>1. Midway(p) => Midway(p)'
      BY <1>0, <2>3 DEF Select, Step, Midway, Reading, Writing, cursor, Registers
    <3> QED
      BY <1>1, <2>3, <3>1 DEF Select, Step, Stage, Between, Reading
  <2>4. CASE ReadLow(p)
    <3>1. Midway(p) => Midway(p)'
      <4> SUFFICES ASSUME Midway(p) PROVE Midway(p)'
        OBVIOUS
      <4>1. crt.index = "low" /\ cur_pos[p] = crt.high * BYTE /\ cursor = last.cursor
        BY <2>4 DEF ReadLow, Step, Midway, Reading
      <4>2. cur_pos'[p] = cursor
        BY <1>0, <2>4, <4>1, Access DEF ReadLow, cursor
      <4> QED
        BY <1>0, <2>4, <4>1, <4>2 DEF ReadLow, Step, Midway, Reading, Writing, cursor
    <3> QED
      BY <1>1, <2>4, <3>1 DEF ReadLow, Step, Stage, Between, Reading
  <2> QED
    BY <1>6, <2>1, <2>2, <2>3, <2>4 DEF get_cursor
<1>7. ASSUME NEW p \in Printer, Draw(p) PROVE SoloInv'
  <2>1. Midway(p) => Midway(p)'
    <3> SUFFICES ASSUME Midway(p) PROVE Midway(p)'
      OBVIOUS
    <3>1. /\ video = last.video /\ cur_pos[p] = last.cursor
          /\ Head(text[p]) = last.char
      BY <1>7 DEF Draw, Step, Midway, Reading
    <3>2. PICK d : d = result
      OBVIOUS
    <3>3. d = draw(video, cur_pos[p], Head(text[p]))
      BY <3>1, <3>2 DEF result
    <3>4. video' = d.video /\ cur_pos'[p] = d.pos
      BY <1>0, <1>7, <3>3 DEF Draw
    <3>5. result' = d
      BY <1>7, <3>2 DEF Draw, result
    <3> QED
      BY <1>0, <1>7, <3>4, <3>5 DEF Draw, Step, Midway, Reading, Writing
  <2> QED
    BY <1>1, <1>7, <2>1 DEF Draw, Step, Stage, Between, Reading, Writing
<1>8. ASSUME NEW p \in Printer, set_cursor(p) PROVE SoloInv'
  <2>1. CASE Select(p, "set_high", "high", "write_high")
    <3>1. Midway(p) => Midway(p)'
      BY <1>0, <2>1 DEF Select, Step, Midway, Reading, Writing, result, Registers
    <3> QED
      BY <1>1, <2>1, <3>1 DEF Select, Step, Stage, Between, Reading, Writing
  <2>2. CASE Write(p, "write_high", cur_pos[p] \div BYTE, "set_low")
    <3>1. Midway(p) => Midway(p)'
      <4> SUFFICES ASSUME Midway(p) PROVE Midway(p)'
        OBVIOUS
      <4>1. crt.index = "high" /\ video = result.video /\ cur_pos[p] = result.pos
        BY <2>2 DEF Write, Step, Midway, Writing
      <4>2. PICK b \in Byte : b = cur_pos[p] \div BYTE
        BY <1>0, TwoBytes
      <4>3. crt' = [crt EXCEPT !.high = b]
        BY <1>0, <2>2, <4>1, <4>2, Access DEF Write
      <4>4. crt'.high = b
        BY <1>0, <4>3 DEF Registers
      <4> QED
        BY <1>0, <2>2, <4>1, <4>2, <4>4 DEF Write, Step, Midway, Reading, Writing, result
    <3> QED
      BY <1>1, <2>2, <3>1 DEF Write, Step, Stage, Between, Reading, Writing
  <2>3. CASE Select(p, "set_low", "low", "write_low")
    <3>1. Midway(p) => Midway(p)'
      BY <1>0, <2>3 DEF Select, Step, Midway, Reading, Writing, result, Registers
    <3> QED
      BY <1>1, <2>3, <3>1 DEF Select, Step, Stage, Between, Reading, Writing
  <2>4. CASE Write(p, "write_low", cur_pos[p] % BYTE, "printing")
    <3> SUFFICES ASSUME last'.alone
                 PROVE  (Alone /\ video = result.video /\ cursor = result.pos)'
      BY DEF SoloInv
    <3>1. Only(p) /\ Midway(p)
      BY <2>4, OnlyOne DEF Write, Step, Between
    <3>2. /\ crt.index = "low" /\ crt.high = cur_pos[p] \div BYTE
          /\ video = result.video /\ cur_pos[p] = result.pos
      BY <2>4, <3>1 DEF Write, Step, Midway, Writing
    <3>3. PICK b \in Byte : b = cur_pos[p] % BYTE
      BY <1>0, TwoBytes
    <3>4. crt' = [crt EXCEPT !.low = b]
      BY <1>0, <2>4, <3>2, <3>3, Access DEF Write
    <3>5. crt'.high = crt.high /\ crt'.low = b
      BY <1>0, <3>4 DEF Registers
    <3>6. cursor' = cur_pos[p]
      BY <1>0, <3>2, <3>3, <3>5, TwoBytes DEF cursor
    <3>7. result' = result /\ video' = video
      BY <2>4 DEF Write, result
    <3>8. Alone'
      BY <1>0, <2>4, <3>1 DEF Write, Step, Only, Alone, Between
    <3> QED
      BY <3>2, <3>6, <3>7, <3>8
  <2> QED
    BY <1>8, <2>1, <2>2, <2>3, <2>4 DEF set_cursor
<1>9. ASSUME HandlerPutChar(NL) PROVE SoloInv'
  <2> SUFFICES ASSUME last'.alone
               PROVE  (Alone /\ video = result.video /\ cursor = result.pos)'
    BY DEF SoloInv
  <2>1. /\ Alone
        /\ last' = [alone |-> TRUE, char |-> NL, video |-> video, cursor |-> cursor]
    BY <1>9 DEF HandlerPutChar, Note, overlapped
  <2>2. PICK d : d = draw(video, cursor, NL)
    OBVIOUS
  <2>3. result' = d
    BY <2>1, <2>2 DEF result
  <2>4. /\ video' = d.video
        /\ crt' = [index |-> "low", high |-> d.pos \div BYTE, low |-> d.pos % BYTE]
    BY <1>9, <2>2 DEF HandlerPutChar
  <2>5. d.pos \in UINT16
    BY <1>0, <2>2, DrawRange, CursorRange
  <2>6. cursor' = d.pos
    BY <2>4, <2>5, TwoBytes DEF cursor
  <2>7. Alone'
    BY <1>9, <2>1 DEF HandlerPutChar, Alone
  <2> QED
    BY <2>3, <2>4, <2>6, <2>7
<1>10. CASE UNCHANGED vars
  BY <1>10 DEF vars, SoloInv, Alone, Only, Midway, result, cursor
<1> QED
  BY <1>3, <1>4, <1>5, <1>6, <1>7, <1>8, <1>9, <1>10 DEF Next, Finished

\* A put_char that runs alone leaves what draw makes of what it found.
THEOREM ScreenSoloInvariant == Spec => [](RangeInv /\ SoloInv)
<1>1. Init => SoloInv
  BY DEF Init, overlapped, SoloInv
<1> QED
  BY <1>1, RangeInit, RangeStep, SoloStep, PTL DEF Spec

\* However overlapping accesses or a backspace have garbled the cursor, the
\* next character that is printed alone brings it back to the screen: for any
\* number of printers and any size of screen that a uint16_t can address.
THEOREM ScreenCursorHeals == Spec => []CursorHeals
<1>1. RangeInv /\ SoloInv => CursorHeals
  <2> SUFFICES ASSUME RangeInv, SoloInv, RanAlone, last.char # BS
               PROVE  cursor < SCREEN_MAX
    BY DEF CursorHeals, OnScreen
  <2>1. cursor = result.pos
    BY DEF SoloInv, RanAlone, Alone, Only, Between
  <2> QED
    BY <2>1, DrawRange DEF RangeInv, result
<1> QED
  BY <1>1, ScreenSoloInvariant, PTL

-----------------------------------------------------------------------------
(* What put_char does to the screen is what a terminal does.               *)

\* The lines a terminal shows of the video memory.
Lines(v) == [r \in 1 .. ROWS |-> [c \in 1 .. COLS |-> v[(r - 1) * COLS + c - 1]]]

\* Places and pairs of a row and a column, both from 0, correspond.
LEMMA PlaceIs ==
  ASSUME NEW q \in 0 .. ROWS - 1, NEW r \in 0 .. COLS - 1
  PROVE  /\ q * COLS \in Nat
         /\ q * COLS + r \in Place
         /\ (q * COLS + r) \div COLS = q /\ (q * COLS + r) % COLS = r
         /\ q + 1 < ROWS => (q + 1) * COLS < SCREEN_MAX
         /\ q + 1 < ROWS => q * COLS + r < SCREEN_MAX - COLS
         /\ (q + 1) * COLS = q * COLS + COLS
<1>1. COLS \in Nat \ {0} /\ ROWS \in Nat \ {0} /\ q \in Nat /\ r \in Nat /\ r < COLS
  BY Sizes
<1>2. (q + 1) * COLS = q * COLS + COLS /\ q * COLS \in Nat
  BY <1>1
<1>3. (q + 1) * COLS <= ROWS * COLS
  BY <1>1
<1>4. q + 1 < ROWS => (q + 1) * COLS + COLS <= ROWS * COLS
  <2> SUFFICES ASSUME q + 1 < ROWS PROVE (q + 2) * COLS <= ROWS * COLS
    BY <1>1
  <2> QED
    BY <1>1
<1>5. (q * COLS + r) \div COLS = q /\ (q * COLS + r) % COLS = r
  BY <1>1, DivideIs
<1>6. ROWS * COLS = SCREEN_MAX /\ SCREEN_MAX \in Nat
  BY Sizes DEF SCREEN_MAX
<1> QED
  BY <1>1, <1>2, <1>3, <1>4, <1>5, <1>6 DEF Place

\* Every place is in a row and a column.
LEMMA PlaceHas ==
  ASSUME NEW pos \in Place
  PROVE  \E q \in 0 .. ROWS - 1, r \in 0 .. COLS - 1 : pos = q * COLS + r
<1>1. /\ COLS \in Nat \ {0} /\ ROWS \in Nat \ {0} /\ pos \in Nat
      /\ pos < ROWS * COLS
  BY Sizes DEF Place, SCREEN_MAX
<1>2. PICK q \in Nat, r \in 0 .. COLS - 1 : pos = q * COLS + r
  BY <1>1, Divide
<1>3. q < ROWS
  <2> SUFFICES ASSUME q >= ROWS PROVE FALSE
    BY <1>1, <1>2
  <2>1. q * COLS >= ROWS * COLS
    BY <1>1, <1>2
  <2> QED
    BY <2>1, <1>1, <1>2
<1> QED
  BY <1>1, <1>2, <1>3

\* Different rows or columns are different places.
LEMMA PlacesDiffer ==
  ASSUME NEW q \in 0 .. ROWS - 1, NEW r \in 0 .. COLS - 1,
         NEW a \in 0 .. ROWS - 1, NEW b \in 0 .. COLS - 1,
         q * COLS + r = a * COLS + b
  PROVE  q = a /\ r = b
  BY PlaceIs

\* A terminal shows the lines, and the cursor at its row and column.
LEMMA ShownIs ==
  ASSUME NEW v, NEW q \in 0 .. ROWS - 1, NEW r \in 0 .. COLS - 1
  PROVE  Shown(v, q * COLS + r) = [lines |-> Lines(v), row |-> q + 1, col |-> r + 1]
  BY PlaceIs DEF Shown, Lines

\* A table that differs in one entry.
LEMMA OneEntry ==
  ASSUME NEW R, NEW C, NEW L, NEW N, NEW a0 \in R, NEW b0 \in C, NEW x,
         L = [a \in R |-> [b \in C |-> L[a][b]]],
         N = [a \in R |-> [b \in C |-> N[a][b]]],
         \A a \in R, b \in C :
           N[a][b] = IF a = a0 /\ b = b0 THEN x ELSE L[a][b]
  PROVE  N = [L EXCEPT ![a0][b0] = x]
<1>1. PICK E : E = [L EXCEPT ![a0][b0] = x]
  OBVIOUS
<1>2. E = [a \in R |-> IF a = a0 THEN [L[a0] EXCEPT ![b0] = x] ELSE L[a]]
  BY <1>1
<1>3. ASSUME NEW a \in R PROVE N[a] = E[a]
  <2>1. N[a] = [b \in C |-> IF a = a0 /\ b = b0 THEN x ELSE L[a][b]]
    OBVIOUS
  <2>2. L[a] = [b \in C |-> L[a][b]]
    OBVIOUS
  <2>3. CASE a = a0
    BY <1>2, <2>1, <2>2, <2>3
  <2>4. CASE a # a0
    BY <1>2, <2>1, <2>2, <2>4
  <2> QED
    BY <2>3, <2>4
<1>4. N = [a \in R |-> N[a]]
  OBVIOUS
<1> QED
  BY <1>1, <1>2, <1>3, <1>4

\* Writing a place of the video memory is writing a place of a line.
LEMMA ShowLine ==
  ASSUME NEW v, Screenful(v), NEW x,
         NEW q \in 0 .. ROWS - 1, NEW r \in 0 .. COLS - 1
  PROVE  Lines(show(v, q * COLS + r, x)) = [Lines(v) EXCEPT ![q + 1][r + 1] = x]
<1>1. PICK i \in Place : i = q * COLS + r
  BY PlaceIs
<1>2. PICK w : w = [v EXCEPT ![i] = x]
  OBVIOUS
<1>3. show(v, i, x) = w
  BY <1>2 DEF show, Screenful
<1>4. COLS \in Nat \ {0} /\ ROWS \in Nat \ {0}
  BY Sizes
<1>5. ASSUME NEW a \in 1 .. ROWS, NEW b \in 1 .. COLS
      PROVE  w[(a - 1) * COLS + b - 1] =
               IF a = q + 1 /\ b = r + 1 THEN x ELSE v[(a - 1) * COLS + b - 1]
  <2>1. PICK a1 \in 0 .. ROWS - 1 : a1 = a - 1
    BY <1>4
  <2>2. PICK b1 \in 0 .. COLS - 1 : b1 = b - 1
    BY <1>4
  <2>3. PICK j \in Place : j = a1 * COLS + b1
    BY PlaceIs
  <2>4. (a - 1) * COLS + b - 1 = j
    BY <2>1, <2>2, <2>3, <1>4, PlaceIs
  <2>5. j = i <=> a1 = q /\ b1 = r
    BY <1>1, <2>3, PlacesDiffer
  <2>6. w[j] = IF j = i THEN x ELSE v[j]
    BY <1>2 DEF Screenful
  <2> QED
    BY <2>1, <2>2, <2>4, <2>5, <2>6, <1>4
<1>6. PICK L, N : L = Lines(v) /\ N = Lines(w)
  OBVIOUS
<1>7. /\ L = [a \in 1 .. ROWS |-> [b \in 1 .. COLS |-> L[a][b]]]
      /\ N = [a \in 1 .. ROWS |-> [b \in 1 .. COLS |-> N[a][b]]]
  BY <1>6 DEF Lines
<1>8. \A a \in 1 .. ROWS, b \in 1 .. COLS :
        N[a][b] = IF a = q + 1 /\ b = r + 1 THEN x ELSE L[a][b]
  BY <1>5, <1>6 DEF Lines
<1>9. PICK R, C : R = 1 .. ROWS /\ C = 1 .. COLS
  OBVIOUS
<1>10. PICK a0 \in R, b0 \in C : a0 = q + 1 /\ b0 = r + 1
  BY <1>4, <1>9
<1>11. /\ L = [a \in R |-> [b \in C |-> L[a][b]]]
       /\ N = [a \in R |-> [b \in C |-> N[a][b]]]
       /\ \A a \in R, b \in C : N[a][b] = IF a = a0 /\ b = b0 THEN x ELSE L[a][b]
  BY <1>7, <1>8, <1>9, <1>10
<1>12. N = [L EXCEPT ![a0][b0] = x]
  BY <1>11, OneEntry
<1> QED
  BY <1>1, <1>3, <1>6, <1>10, <1>12

\* Rolling the video memory takes away the first line and adds a blank one.
LEMMA RollLines ==
  ASSUME NEW v, Screenful(v)
  PROVE  Lines(roll(v)) = Append(Tail(Lines(v)), blank_line)
<1>1. COLS \in Nat \ {0} /\ ROWS \in Nat \ {0} /\ SCREEN_MAX \in Nat
      /\ SCREEN_MAX = ROWS * COLS
  BY Sizes DEF SCREEN_MAX
<1>2. PICK w : w = roll(v)
  OBVIOUS
<1>3. \A i \in Place : w[i] = IF i < SCREEN_MAX - COLS THEN v[i + COLS] ELSE BLANK
  BY <1>2 DEF roll, Screenful
<1>4. ASSUME NEW a \in 1 .. ROWS - 1, NEW b \in 1 .. COLS
      PROVE  w[(a - 1) * COLS + b - 1] = v[(a + 1 - 1) * COLS + b - 1]
  <2>1. PICK a1 \in 0 .. ROWS - 1 : a1 = a - 1 /\ a1 + 1 < ROWS
    BY <1>1
  <2>2. PICK b1 \in 0 .. COLS - 1 : b1 = b - 1
    BY <1>1
  <2>3. PICK j \in Place : j = a1 * COLS + b1 /\ j < SCREEN_MAX - COLS
    BY <2>1, PlaceIs
  <2>4. (a - 1) * COLS + b - 1 = j /\ (a + 1 - 1) * COLS + b - 1 = j + COLS
    BY <2>1, <2>2, <2>3, <1>1, PlaceIs
  <2> QED
    BY <1>3, <2>3, <2>4
<1>5. ASSUME NEW b \in 1 .. COLS
      PROVE  w[(ROWS - 1) * COLS + b - 1] = BLANK
  <2>1. PICK b1 \in 0 .. COLS - 1 : b1 = b - 1
    BY <1>1
  <2>2. ROWS - 1 \in 0 .. ROWS - 1
    BY <1>1
  <2>3. (ROWS - 1) * COLS + b1 \in Place
    BY <2>2, PlaceIs
  <2>4. (ROWS - 1) * COLS = SCREEN_MAX - COLS
    BY <1>1
  <2>5. (ROWS - 1) * COLS + b - 1 = (ROWS - 1) * COLS + b1
    BY <1>1, <2>1, <2>4
  <2> QED
    BY <1>1, <1>3, <2>1, <2>3, <2>4, <2>5
<1>6. PICK L : L = Lines(v)
  OBVIOUS
<1>7. PICK C : C = {v[i] : i \in Place}
  OBVIOUS
<1>8. L \in [1 .. ROWS -> [1 .. COLS -> C]]
  <2> SUFFICES ASSUME NEW a \in 1 .. ROWS, NEW b \in 1 .. COLS
               PROVE  v[(a - 1) * COLS + b - 1] \in C
    BY <1>6 DEF Lines
  <2>1. PICK a1 \in 0 .. ROWS - 1 : a1 = a - 1
    BY <1>1
  <2>2. PICK b1 \in 0 .. COLS - 1 : b1 = b - 1
    BY <1>1
  <2>3. a1 * COLS + b1 \in Place
    BY PlaceIs
  <2>4. (a - 1) * COLS + b - 1 = a1 * COLS + b1
    BY <2>1, <2>2, <1>1, PlaceIs
  <2> QED
    BY <1>7, <2>3, <2>4
<1>9. PICK D : D = [1 .. COLS -> C]
  OBVIOUS
<1>10. L \in Seq(D) /\ Len(L) = ROWS
  BY <1>1, <1>8, <1>9
<1>11. PICK T : T = Tail(L)
  OBVIOUS
<1>12. T \in Seq(D) /\ Len(T) = ROWS - 1 /\ \A a \in 1 .. ROWS - 1 : T[a] = L[a + 1]
  BY <1>1, <1>10, <1>11
<1>13. Append(T, blank_line) =
         [a \in 1 .. ROWS |-> IF a < ROWS THEN L[a + 1] ELSE blank_line]
  <2>1. PICK E : E = D \union {blank_line}
    OBVIOUS
  <2>2. T \in Seq(E) /\ blank_line \in E
    BY <1>12, <2>1
  <2>3. PICK A : A = Append(T, blank_line)
    OBVIOUS
  <2>4. A \in Seq(E) /\ Len(A) = ROWS
    BY <1>1, <1>12, <2>2, <2>3
  <2>5. \A a \in 1 .. ROWS : A[a] = IF a < ROWS THEN L[a + 1] ELSE blank_line
    BY <1>1, <1>12, <2>2, <2>3
  <2>6. A = [a \in 1 .. ROWS |-> A[a]]
    BY <2>4
  <2> QED
    BY <2>3, <2>5, <2>6
<1>14. ASSUME NEW a \in 1 .. ROWS
       PROVE  [b \in 1 .. COLS |-> w[(a - 1) * COLS + b - 1]] =
                IF a < ROWS THEN L[a + 1] ELSE blank_line
  <2>1. CASE a < ROWS
    <3>1. L[a + 1] = [b \in 1 .. COLS |-> v[(a + 1 - 1) * COLS + b - 1]]
      BY <1>1, <1>6, <2>1 DEF Lines
    <3>2. a \in 1 .. ROWS - 1
      BY <1>1, <2>1
    <3>3. \A b \in 1 .. COLS :
            w[(a - 1) * COLS + b - 1] = v[(a + 1 - 1) * COLS + b - 1]
      BY <1>4, <3>2
    <3> QED
      BY <2>1, <3>1, <3>3
  <2>2. CASE a = ROWS
    <3>1. \A b \in 1 .. COLS : w[(a - 1) * COLS + b - 1] = BLANK
      BY <1>5, <2>2
    <3>2. [b \in 1 .. COLS |-> w[(a - 1) * COLS + b - 1]] = blank_line
      BY <3>1 DEF blank_line
    <3>3. ~(a < ROWS)
      BY <1>1, <2>2
    <3> QED
      BY <3>2, <3>3
  <2> QED
    BY <1>1, <2>1, <2>2
<1>15. Lines(w) = [a \in 1 .. ROWS |-> IF a < ROWS THEN L[a + 1] ELSE blank_line]
  BY <1>14 DEF Lines
<1> QED
  BY <1>2, <1>6, <1>11, <1>13, <1>15

\* A position past the line of q, wherever the cursor was in it, is a new line.
LEMMA NextLine ==
  ASSUME NEW v, Screenful(v), NEW q \in 0 .. ROWS - 1, NEW k,
         NEW n, n = (q + 1) * COLS,
         NEW d, d = CHECK_OUT_OF_SCREEN(v, n)
  PROVE  Shown(d.video, d.pos) = NewLine([lines |-> Lines(v), row |-> q + 1, col |-> k])
<1>1. /\ COLS \in Nat \ {0} /\ ROWS \in Nat \ {0} /\ SCREEN_MAX \in Nat
      /\ SCREEN_MAX = ROWS * COLS
  BY Sizes DEF SCREEN_MAX
<1>2. 0 \in 0 .. COLS - 1
  BY <1>1
<1>3. CASE q + 1 < ROWS
  <2>1. n < SCREEN_MAX /\ n \in Nat
    BY <1>1, <1>2, <1>3, PlaceIs
  <2>2. d = [video |-> v, pos |-> n]
    BY <1>1, <2>1 DEF CHECK_OUT_OF_SCREEN, out_of_screen
  <2>3. PICK p \in 0 .. ROWS - 1 : p = q + 1
    BY <1>1, <1>3
  <2>4. n = p * COLS + 0
    BY <1>1, <2>3
  <2>5. Shown(v, n) = [lines |-> Lines(v), row |-> p + 1, col |-> 0 + 1]
    BY <1>2, <2>4, ShownIs
  <2>6. NewLine([lines |-> Lines(v), row |-> q + 1, col |-> k]) =
          [lines |-> Lines(v), row |-> q + 1 + 1, col |-> 1]
    BY <1>3 DEF NewLine
  <2>7. p + 1 = q + 1 + 1 /\ 0 + 1 = 1
    BY <2>3
  <2> QED
    BY <2>2, <2>5, <2>6, <2>7
<1>4. CASE ~(q + 1 < ROWS)
  <2>1. q + 1 = ROWS /\ n = SCREEN_MAX
    BY <1>1, <1>4
  <2>2. d = [video |-> roll(v), pos |-> SCREEN_MAX - COLS]
    BY <1>1, <2>1 DEF CHECK_OUT_OF_SCREEN, out_of_screen
  <2>3. SCREEN_MAX - COLS = q * COLS + 0
    BY <1>1, <2>1
  <2>4. Shown(roll(v), q * COLS + 0) =
          [lines |-> Lines(roll(v)), row |-> q + 1, col |-> 0 + 1]
    BY <1>2, ShownIs
  <2>5. Lines(roll(v)) = Append(Tail(Lines(v)), blank_line)
    BY RollLines
  <2>6. NewLine([lines |-> Lines(v), row |-> q + 1, col |-> k]) =
          [lines |-> Append(Tail(Lines(v)), blank_line), row |-> q + 1, col |-> 1]
    BY <1>4 DEF NewLine
  <2> QED
    BY <2>2, <2>3, <2>4, <2>5, <2>6
<1> QED
  BY <1>3, <1>4

\* The body of put_char does to a cursor on the screen what a terminal does.
LEMMA DrawIsPut ==
  ASSUME NEW v, Screenful(v), NEW pos \in UINT16, OnScreen(pos), NEW c,
         ~(c = BS /\ AtOrigin(Shown(v, pos)))
  PROVE  Shown(draw(v, pos, c).video, draw(v, pos, c).pos) = Put(Shown(v, pos), c)
<1>0. PICK M \in Nat : M = BYTE * BYTE
  BY Sizes
<1>1. /\ M \in Nat \ {0} /\ SCREEN_MAX \in Nat /\ SCREEN_MAX < M
      /\ COLS \in Nat \ {0} /\ ROWS \in Nat \ {0} /\ pos \in Place
      /\ SCREEN_MAX = ROWS * COLS
  BY <1>0, Sizes DEF UINT16, OnScreen, Place, SCREEN_MAX
<1>2. PICK q \in 0 .. ROWS - 1, r \in 0 .. COLS - 1 : pos = q * COLS + r
  BY <1>1, PlaceHas
<1>3. /\ pos % COLS = r /\ q * COLS \in Nat /\ (q + 1) * COLS = q * COLS + COLS
      /\ (q + 1) * COLS <= SCREEN_MAX
  BY <1>1, <1>2, PlaceIs
<1>4. PICK L : L = Lines(v)
  OBVIOUS
<1>5. PICK t : t = [lines |-> L, row |-> q + 1, col |-> r + 1]
  OBVIOUS
<1>6. Shown(v, pos) = t
  BY <1>2, <1>4, <1>5, ShownIs
<1>7. ASSUME NEW n \in Nat, n < M PROVE n % M = n
  BY <1>1, <1>7
<1>8. CASE c = NL
  <2>1. PICK n \in Nat : n = (q + 1) * COLS
    BY <1>1, <1>3
  <2>2. pos - (pos % COLS) + COLS = n /\ n < M
    BY <1>1, <1>2, <1>3, <2>1
  <2>3. n % (BYTE * BYTE) = n
    BY <1>0, <1>7, <2>2
  <2>4. PICK d : d = CHECK_OUT_OF_SCREEN(v, n)
    OBVIOUS
  <2>5. draw(v, pos, c) = d
    BY <1>8, <2>2, <2>3, <2>4, TerminalAssumption DEF draw
  <2>6. Shown(d.video, d.pos) = NewLine(t)
    BY <1>4, <1>5, <2>1, <2>4, NextLine
  <2> QED
    BY <1>6, <1>8, <2>5, <2>6 DEF Put
<1>9. CASE c = BS
  <2>1. pos # 0
    <3> SUFFICES ASSUME pos = 0 PROVE FALSE
      OBVIOUS
    <3>1. q = 0 /\ r = 0
      <4>1. 0 \in 0 .. ROWS - 1 /\ 0 \in 0 .. COLS - 1 /\ 0 * COLS + 0 = 0
        BY <1>1
      <4> QED
        BY <1>2, <4>1, PlacesDiffer
    <3> QED
      BY <1>5, <1>6, <1>9, <3>1 DEF AtOrigin
  <2>2. PICK n \in Nat : n = pos - 1
    BY <1>1, <2>1 DEF Place
  <2>3. n % (BYTE * BYTE) = n
    <3>1. n < M
      BY <1>1, <2>2 DEF Place
    <3> QED
      BY <1>0, <1>7, <3>1
  <2>4. PICK w : w = show(v, n, BLANK)
    OBVIOUS
  <2>5. draw(v, pos, c) = [video |-> w, pos |-> n]
    BY <1>9, <2>2, <2>3, <2>4, TerminalAssumption DEF draw
  <2>6. CASE r > 0
    <3>1. PICK s \in 0 .. COLS - 1 : s = r - 1
      BY <1>1, <2>6
    <3>2. n = q * COLS + s
      BY <1>1, <1>2, <1>3, <2>2, <3>1
    <3>3. Lines(w) = [L EXCEPT ![q + 1][s + 1] = BLANK]
      BY <1>4, <2>4, <3>2, ShowLine
    <3>4. Shown(w, n) = [lines |-> Lines(w), row |-> q + 1, col |-> s + 1]
      BY <3>2, ShownIs
    <3>5. Rubout(t) = [lines |-> [L EXCEPT ![q + 1][s + 1] = BLANK],
                       row |-> q + 1, col |-> s + 1]
      <4>1. [t EXCEPT !.col = @ - 1] = [lines |-> L, row |-> q + 1, col |-> s + 1]
        BY <1>5, <3>1
      <4>2. t.col > 1
        BY <1>5, <2>6
      <4> QED
        BY <4>1, <4>2 DEF Rubout
    <3> QED
      BY <1>6, <1>9, <2>5, <3>3, <3>4, <3>5, TerminalAssumption DEF Put
  <2>7. CASE ~(r > 0)
    <3>1. r = 0 /\ q # 0
      BY <1>1, <1>2, <2>1, <2>7
    <3>2. PICK p \in 0 .. ROWS - 1 : p = q - 1
      BY <1>1, <3>1
    <3>3. PICK s \in 0 .. COLS - 1 : s = COLS - 1
      BY <1>1
    <3>4. n = p * COLS + s
      <4>1. q * COLS = p * COLS + COLS /\ p * COLS \in Nat
        BY <1>1, <3>2, PlaceIs
      <4> QED
        BY <1>1, <1>2, <2>2, <3>1, <3>3, <4>1
    <3>5. Lines(w) = [L EXCEPT ![p + 1][s + 1] = BLANK]
      <4>1. Lines(show(v, p * COLS + s, BLANK)) = [Lines(v) EXCEPT ![p + 1][s + 1] = BLANK]
        BY ShowLine
      <4> QED
        BY <1>4, <2>4, <3>4, <4>1
    <3>6. Shown(w, n) = [lines |-> Lines(w), row |-> p + 1, col |-> s + 1]
      BY <3>4, ShownIs
    <3>7. Rubout(t) = [lines |-> [L EXCEPT ![p + 1][s + 1] = BLANK],
                       row |-> p + 1, col |-> s + 1]
      <4>1. [t EXCEPT !.row = @ - 1, !.col = COLS] =
              [lines |-> L, row |-> p + 1, col |-> s + 1]
        <5>1. t.row - 1 = p + 1 /\ COLS = s + 1
          BY <1>1, <1>5, <3>2, <3>3
        <5>2. PICK x, y : x = t.row - 1 /\ y = COLS
          OBVIOUS
        <5>3. PICK t1 : t1 = [t EXCEPT !.row = x]
          OBVIOUS
        <5>4. t1 = [lines |-> L, row |-> x, col |-> r + 1]
          BY <1>5, <5>3
        <5>5. [t1 EXCEPT !.col = y] = [lines |-> L, row |-> x, col |-> y]
          BY <5>4
        <5>6. [t EXCEPT !.row = x, !.col = y] = [t1 EXCEPT !.col = y]
          BY <1>5, <5>3
        <5> QED
          BY <5>1, <5>2, <5>5, <5>6
      <4>2. ~(t.col > 1)
        BY <1>5, <3>1
      <4>3. PICK back : back = [lines |-> L, row |-> p + 1, col |-> s + 1]
        OBVIOUS
      <4>4. Rubout(t) = [back EXCEPT !.lines[back.row][back.col] = BLANK]
        BY <4>1, <4>2, <4>3 DEF Rubout
      <4> QED
        BY <4>3, <4>4
    <3> QED
      BY <1>6, <1>9, <2>5, <3>5, <3>6, <3>7, TerminalAssumption DEF Put
  <2> QED
    BY <2>6, <2>7
<1>10. CASE c # NL /\ c # BS
  <2>1. PICK n \in Nat : n = pos + 1
    BY <1>1 DEF Place
  <2>2. n % (BYTE * BYTE) = n
    <3>1. n < M
      BY <1>1, <2>1 DEF Place
    <3> QED
      BY <1>0, <1>7, <3>1
  <2>3. PICK w : w = show(v, pos, c)
    OBVIOUS
  <2>4. PICK d : d = CHECK_OUT_OF_SCREEN(w, n)
    OBVIOUS
  <2>5. draw(v, pos, c) = d
    BY <1>10, <2>1, <2>2, <2>3, <2>4 DEF draw
  <2>6. Lines(w) = [L EXCEPT ![q + 1][r + 1] = c]
    <3>1. Lines(show(v, q * COLS + r, c)) = [Lines(v) EXCEPT ![q + 1][r + 1] = c]
      BY ShowLine
    <3> QED
      BY <1>2, <1>4, <2>3, <3>1
  <2>7. PICK u : u = [lines |-> Lines(w), row |-> q + 1, col |-> r + 1]
    OBVIOUS
  <2>8. [t EXCEPT !.lines[t.row][t.col] = c] = u
    BY <1>5, <2>6, <2>7
  <2>9. Put(t, c) = IF r + 1 < COLS THEN [u EXCEPT !.col = @ + 1] ELSE NewLine(u)
    BY <1>5, <1>10, <2>8 DEF Put, Type
  <2>10. CASE r + 1 < COLS
    <3>1. PICK s \in 0 .. COLS - 1 : s = r + 1
      BY <1>1, <2>10
    <3>2. n = q * COLS + s /\ n < SCREEN_MAX
      BY <1>1, <1>2, <1>3, <2>1, <3>1, PlaceIs DEF Place
    <3>3. d = [video |-> w, pos |-> n]
      BY <1>1, <2>4, <3>2 DEF CHECK_OUT_OF_SCREEN, out_of_screen
    <3>4. Shown(w, n) = [lines |-> Lines(w), row |-> q + 1, col |-> s + 1]
      BY <3>2, ShownIs
    <3> QED
      BY <1>6, <2>5, <2>7, <2>9, <2>10, <3>1, <3>3, <3>4
  <2>11. CASE ~(r + 1 < COLS)
    <3>1. n = (q + 1) * COLS
      BY <1>1, <1>2, <1>3, <2>1, <2>11
    <3>2. Screenful(w)
      BY <2>3 DEF show, Screenful
    <3>3. Shown(d.video, d.pos) = NewLine(u)
      BY <2>4, <2>7, <3>1, <3>2, NextLine
    <3> QED
      BY <1>6, <2>5, <2>9, <2>11, <3>3
  <2> QED
    BY <2>10, <2>11
<1> QED
  BY <1>8, <1>9, <1>10

\* A put_char that no other overlaps does to the screen what a terminal does,
\* also after earlier ones have left the cursor and the index anywhere: for
\* any number of printers, any text and any size of screen.
THEOREM ScreenSoloExact == Spec => []SoloExact
<1>1. RangeInv /\ SoloInv => SoloExact
  <2> SUFFICES ASSUME RangeInv, SoloInv, RanAlone, OnScreen(last.cursor),
                      ~(last.char = BS /\ AtOrigin(Shown(last.video, last.cursor)))
               PROVE  Shown(video, cursor) = Put(Shown(last.video, last.cursor), last.char)
    BY DEF SoloExact
  <2>1. video = result.video /\ cursor = result.pos
    BY DEF SoloInv, RanAlone, Alone, Only, Between
  <2> QED
    BY <2>1, DrawIsPut DEF RangeInv, result
<1> QED
  BY <1>1, ScreenSoloInvariant, PTL
=============================================================================
