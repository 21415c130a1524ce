-------------------------------- MODULE Tty ---------------------------------
(***************************************************************************)
(* The console's input side: kernel/keyboard.c, and keyboard_read as       *)
(* devfs's console_read calls it.  A key stands for the character (for the *)
(* shell: the word or operator) it types.  Interrupts come between system  *)
(* calls, so a key press is one step and a read that finds input is one    *)
(* step; a read that finds none sleeps on kbd_wait_chan.                   *)
(***************************************************************************)
EXTENDS Integers, Sequences

CONSTANTS
    EDIT_LINE_MAX,    \* the line being typed holds one character less
    KBD_QUEUE_SIZE    \* the queue holds one character less

ASSUME TtyAssumption ==
    /\ EDIT_LINE_MAX \in Nat \ {0}
    /\ KBD_QUEUE_SIZE \in Nat \ {0}

VARIABLES
    ctrl_held,
    raw_mode, echo_enabled,
    edit_line,        \* typed, not yet entered
    kbd_queue,        \* entered, not yet read: the character and its line
    asleep,           \* readers blocked on kbd_wait_chan
    entered,          \* history: the number of lines entered
    cut               \* history: lines that lost their tail to a full queue

ttyvars == <<ctrl_held, raw_mode, echo_enabled, edit_line, kbd_queue, asleep,
             entered, cut>>

(* The line number of a character delivered in raw mode. *)
RAW == 0

TtyInit ==
    /\ ctrl_held = FALSE
    /\ raw_mode = FALSE /\ echo_enabled = TRUE
    /\ edit_line = <<>>
    /\ kbd_queue = <<>>
    /\ asleep = {}
    /\ entered = 0
    /\ cut = {}

-----------------------------------------------------------------------------
Room == KBD_QUEUE_SIZE - 1 - Len(kbd_queue)

(* kbd_queue_push of each of the characters cs: those that find the queue  *)
(* full are lost.                                                          *)
kbd_queue_push(cs, line) ==
    /\ kbd_queue' = kbd_queue \o
          [k \in 1 .. (IF Len(cs) <= Room THEN Len(cs) ELSE Room) |-> [c |-> cs[k], line |-> line]]
    /\ cut' = IF Len(cs) > Room THEN cut \cup {line} ELSE cut

(* Backspace edits the line, Enter delivers it and wakes the readers, any  *)
(* other character is appended while there is room.                        *)
commit_char(c) ==
    CASE c = "BS" ->
            /\ edit_line' = IF edit_line = <<>> THEN <<>>
                            ELSE SubSeq(edit_line, 1, Len(edit_line) - 1)
            /\ UNCHANGED <<kbd_queue, asleep, entered, cut>>
      [] c = "NL" ->
            /\ kbd_queue_push(Append(edit_line, c), entered + 1)
            /\ entered' = entered + 1
            /\ edit_line' = <<>>
            /\ asleep' = {}
      [] OTHER ->
            /\ edit_line' = IF Len(edit_line) < EDIT_LINE_MAX - 1
                            THEN Append(edit_line, c) ELSE edit_line
            /\ UNCHANGED <<kbd_queue, asleep, entered, cut>>

raw_char(c) ==
    /\ kbd_queue_push(<<c>>, RAW)
    /\ asleep' = {}
    /\ UNCHANGED <<edit_line, entered>>

IsSignal(key) == ctrl_held /\ key \in {"c", "z"}

(* keyboard_handle_scancode of any key but Ctrl-C and Ctrl-Z.  A character *)
(* typed while Ctrl is down is ignored, Enter included.                    *)
keyboard_handle_scancode(key) ==
    /\ ~IsSignal(key)
    /\ ctrl_held' = IF key = "ctrl" THEN TRUE
                    ELSE IF key = "ctrl up" THEN FALSE ELSE ctrl_held
    /\ UNCHANGED <<raw_mode, echo_enabled>>
    /\ CASE key \in {"ctrl", "ctrl up"} \/ ctrl_held ->
              UNCHANGED <<edit_line, kbd_queue, asleep, entered, cut>>
         [] raw_mode -> raw_char(key)
         [] OTHER -> commit_char(key)

(* tty_set_raw, which drops the line being typed. *)
tty_set_raw(enable) ==
    /\ raw_mode' = enable
    /\ edit_line' = <<>>
    /\ UNCHANGED <<ctrl_held, echo_enabled, kbd_queue, asleep, entered, cut>>

tty_set_echo(enable) ==
    /\ echo_enabled' = enable
    /\ UNCHANGED <<ctrl_held, raw_mode, edit_line, kbd_queue, asleep, entered, cut>>

(* Mutant: the drain does not stop at the newline. *)
Drained_past(n, count) == n = IF count < Len(kbd_queue) THEN count ELSE Len(kbd_queue)

(* keyboard_read with room for count characters drains n: up to a newline, *)
(* the end of the queue or count, in raw mode too.  The first character is *)
(* taken before count is looked at.                                        *)
Drained(n, count) ==
    /\ n \in 1 .. Len(kbd_queue)
    /\ n <= count \/ n = 1
    /\ \A k \in 1 .. n - 1 : kbd_queue[k].c # "NL"
    /\ n >= count \/ n = Len(kbd_queue) \/ kbd_queue[n].c = "NL"

(* A round of keyboard_read's loop that finds the queue empty. *)
read_sleeps(who) ==
    /\ who \notin asleep
    /\ kbd_queue = <<>>
    /\ asleep' = asleep \cup {who}
    /\ UNCHANGED <<ctrl_held, raw_mode, echo_enabled, edit_line, kbd_queue, entered, cut>>

(* A read that returns the first n characters of the queue. *)
read_returns(who, n, count) ==
    /\ who \notin asleep
    /\ Drained(n, count)
    /\ kbd_queue' = SubSeq(kbd_queue, n + 1, Len(kbd_queue))
    /\ UNCHANGED <<ctrl_held, raw_mode, echo_enabled, edit_line, asleep, entered, cut>>
=============================================================================
