--------------------------------- MODULE Shell ---------------------------------
(***************************************************************************)
(* The line editor of shell.rs on the console of framebuffer.rs.  A print  *)
(* holds the lock of the framebuffer with interrupts disabled, so it is    *)
(* one step; the warning of the keyboard interrupt comes between prints.   *)
(* A key that prints more than once is one step too: a warning in its      *)
(* middle adds a line before the prompt, as the output of a command does.  *)
(***************************************************************************)
EXTENDS FrameBuffer, SequencesExt

CONSTANTS
  BUF_LEN, \* length of the line buffer
  Keys     \* keys that are pressed: characters and the names below

VARIABLES
  buf,      \* the line: buf[..pos]
  prompted, \* history: nothing has come between the prompt and what follows it
  typed     \* history: how many characters at the end of buf were echoed one after
            \* the other, with nothing else printed or erased since

shellVars == <<writer, buf, prompted, typed>>

Prompt == <<"esc", "[", "3", "2", "m", "$", Space, "esc", "[", "0", "m">>
ScaleNote == <<"esc", "[", "3", "3", "m", "[", "esc", "[", "0", "m", "nl">>

write_string(w, s) == FoldLeft(write_byte, w, s)

print_prompt(w) == write_string(w, Prompt)

ShellInit ==
  /\ writer = print_prompt(clear_screen(New))
  /\ buf = <<>>
  /\ prompted = TRUE
  /\ typed = 0

push(c) ==
  /\ Len(buf) < BUF_LEN
  /\ buf' = Append(buf, c)
  /\ writer' = write_byte(writer, c)
  /\ typed' = typed + 1
  /\ UNCHANGED prompted

\* Whether erasing goes back over the last character of the line: at the start of
\* a row the cursor stays where it is, and when no character is left that was
\* echoed here, it is the prompt, or what another has printed, that is erased.
ErasesEcho == typed > 0 /\ writer.x > 0

\* Mutant: the cursor moves back over a character that stays.
backspace_moves ==
  /\ buf # <<>>
  /\ buf' = Front(buf)
  /\ writer' = write_byte(writer, "bs")
  /\ typed' = IF ErasesEcho THEN typed - 1 ELSE 0
  /\ prompted' = (prompted /\ ErasesEcho)

backspace ==
  /\ buf # <<>>
  /\ buf' = Front(buf)
  /\ writer' = write_string(writer, <<"bs", Space, "bs">>)
  /\ typed' = IF ErasesEcho THEN typed - 1 ELSE 0
  /\ prompted' = (prompted /\ ErasesEcho)

\* What a command prints: nothing, a line, a text without a newline (cat), or
\* a prompt on a cleared screen (clear).
Output(w) ==
  {w, write_string(w, <<"b", "nl">>), write_string(w, <<"b">>), print_prompt(clear_screen(w))}

execute(w) ==
  /\ buf' = <<>>
  /\ \E out \in Output(w) : writer' = print_prompt(out)
  /\ prompted' = TRUE
  /\ typed' = 0

Enter == execute(write_byte(writer, "nl"))

\* Ctrl with plus or minus: the screen is cleared and gets a new prompt.  The line
\* stays in the buffer, and what was typed of it is not printed again.
Rescale(w) ==
  /\ w # writer
  /\ writer' = print_prompt(write_string(w, ScaleNote))
  /\ prompted' = TRUE
  /\ typed' = 0
  /\ UNCHANGED buf

\* Every key press that does something.
handle_key(k) ==
  CASE k = "enter"     -> Enter
    [] k = "backspace" -> backspace
    [] k = "ctrl +"    -> Rescale(scale_up(writer))
    [] k = "ctrl -"    -> Rescale(scale_down(writer))
    [] OTHER           -> push(k)

\* A key that changes nothing: the line is full or empty, or the scale at its limit.
Ignored(k) ==
  /\ \/ k = "backspace" /\ buf = <<>>
     \/ k = "ctrl +" /\ writer.scale = MAX_SCALE
     \/ k = "ctrl -" /\ writer.scale = MIN_SCALE
     \/ k \notin {"enter", "backspace", "ctrl +", "ctrl -"} /\ Len(buf) = BUF_LEN
  /\ UNCHANGED shellVars

\* add_scancode prints from the keyboard interrupt when its queue is full.
Warning ==
  /\ "dropped" \in Keys
  /\ writer' = write_string(writer, <<"b", "nl">>)
  /\ prompted' = FALSE
  /\ typed' = 0
  /\ UNCHANGED buf

ShellNext ==
  \/ \E k \in Keys \ {"dropped"} : handle_key(k) \/ Ignored(k)
  \/ Warning

ShellSpec == ShellInit /\ [][ShellNext]_shellVars
-----------------------------------------------------------------------------
(* Properties *)

\* The characters of the line that the screen should show: those echoed since the
\* last prompt, warning or change of scale, behind the prompt if that is theirs.
Echoed ==
  (IF prompted THEN <<"$", Space>> ELSE <<>>) \o SubSeq(buf, Len(buf) - typed + 1, Len(buf))

\* Right before the cursor the screen shows these characters, exactly and in order,
\* also when the line wraps over several rows and the screen scrolls; behind the
\* cursor it is blank.  So the end of the line that will be executed can be read
\* from the screen, and all of it unless the scale was changed, a warning came, or
\* backspace met the start of a row.
LineOnScreen ==
  LET cols == Size(writer.scale).cols
      place(r, c) == r * cols + c
      cursor == place(writer.y \div writer.scale, writer.x \div writer.scale)
  IN  \A rc \in DOMAIN Page :
        LET i == place(rc[1], rc[2]) - cursor + Len(Echoed) + 1
        IN  /\ i \in DOMAIN Echoed => Page[rc] = Echoed[i]
            /\ i > Len(Echoed) => Page[rc] = Space

\* Between two keys no escape sequence is open and the colours are the default
\* ones, so what is typed is shown and in the default colours.
PrintsComplete ==
  writer.escape_state = "Normal" /\ writer.fg = DefaultFg /\ writer.bg = DefaultBg
=============================================================================
