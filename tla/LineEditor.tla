----------------------------- MODULE LineEditor -----------------------------
(***************************************************************************)
(* The line editor of the SDL frontend's debugger console (SDL/console.c): *)
(* what each key does to the line, its window on the screen, the history,  *)
(* the search in it and the completion by Tab, while the emulation prints  *)
(* and the terminal is resized.  A character is a letter or a space.  Not  *)
(* here is Ctrl+Z, which stops the process and makes the terminal anew.    *)
(***************************************************************************)
EXTENDS Integers, Sequences, SequencesExt, FiniteSetsExt

CONSTANTS
    Windows,      \* width - 1 - prompt_length
    MaxLength, MaxEntry, MaxHistory    \* bounds of the line, of one entered, of the history

(* The terminal is wider than the prompt. *)
ASSUME EditorAssumption ==
    /\ \A w \in Windows : w \in Nat /\ w > 0
    /\ MaxLength \in Nat /\ MaxEntry \in Nat /\ MaxHistory \in Nat

VARIABLES
    line,         \* content, position, scroll
    max,          \* the columns for the line
    history,      \* its entries, of an id and a text, the oldest first
    history_line, \* the id of the entry that Up and Down have come to, or 0
    reverse, search_line,    \* reverse_search, and the id of the entry found, or 0
    complete_context, completion_length,
    typed,        \* what the user has put before the completion and after it
    resized       \* the terminal, since the line was drawn last

editorVars == <<line, max, history, history_line, reverse, search_line, complete_context,
          completion_length, typed, resized>>
completion == <<complete_context, completion_length, typed>>
past == <<history, history_line>>
search == <<reverse, search_line>>

Characters == {"a", " "}
NoText == [before |-> <<>>, after |-> <<>>, active |-> FALSE]

EditorInit ==
    /\ line = [content |-> <<>>, position |-> 0, scroll |-> 0]
    /\ max \in Windows /\ history = <<>> /\ history_line = 0
    /\ reverse = FALSE /\ search_line = 0
    /\ complete_context = 0 /\ completion_length = 0 /\ typed = NoText
    /\ resized = FALSE

Before(l) == SubSeq(l.content, 1, l.position)
After(l) == SubSeq(l.content, l.position + 1, Len(l.content))
LineAt(before, after, l) == [l EXCEPT !.content = before \o after, !.position = Len(before)]
-----------------------------------------------------------------------------
(* redraw_prompt: the window follows the cursor. *)
ScrollLate(l) ==    \* mutant: the window moves when the cursor has left it
    LET shrunk == IF Len(l.content) <= max THEN 0
                  ELSE IF l.scroll > Len(l.content) - max THEN Len(l.content) - max ELSE l.scroll
        left == IF l.position < shrunk THEN l.position ELSE shrunk
    IN IF l.position > left + max + 1 THEN l.position - max ELSE left

Scroll(l) ==
    LET shrunk == IF Len(l.content) <= max THEN 0
                  ELSE IF l.scroll > Len(l.content) - max THEN Len(l.content) - max ELSE l.scroll
        left == IF l.position < shrunk + 1 /\ l.position > 0 THEN l.position - 1
                ELSE IF l.position = 0 THEN 0 ELSE shrunk
    IN IF l.position > left + max THEN l.position - max ELSE left

(* Where the window stands still and the line fits, nothing is redrawn. *)
Redraws(l) == Scroll(l) # l.scroll \/ Len(l.content) > max

Drawn(l) ==
    /\ line' = IF reverse' THEN l ELSE [l EXCEPT !.scroll = Scroll(l)]
    /\ resized' = (resized /\ reverse')

Bell == UNCHANGED <<line, resized>>

NotCompleting == complete_context' = 0 /\ completion_length' = 0 /\ typed' = NoText

Edit(l) == Drawn(l) /\ NotCompleting
-----------------------------------------------------------------------------
SetPosition(position) ==
    IF position \in 0 .. Len(line.content) THEN Edit([line EXCEPT !.position = position])
    ELSE Bell /\ NotCompleting

Insert(c) == LineAt(Append(Before(line), c), After(line), line)

DeleteBack(size) == LineAt(SubSeq(line.content, 1, line.position - size), After(line), line)

DeleteForward(size) ==
    LineAt(Before(line), SubSeq(line.content, line.position + size + 1, Len(line.content)), line)

(* The end of the word, with one character of any kind before it. *)
WordEnd == Min({Len(line.content)} \cup {p \in line.position + 1 .. Len(line.content) - 1 : line.content[p + 1] = " "})
WordStart == Max({0} \cup {p \in 1 .. line.position - 1 : line.content[p] = " "})

MovesWord(forward) == IF forward THEN line.position < Len(line.content) ELSE line.position > 0

DeleteWord(forward) ==
    IF forward THEN DeleteForward(WordEnd - line.position) ELSE DeleteBack(line.position - WordStart)

SetLine(text) == LineAt(text, <<>>, line)

(* Where a redraw is needed, Ctrl+K does nothing but that. *)
Kill == IF Redraws(line) THEN line ELSE [line EXCEPT !.content = Before(line)]

Transposed ==
    LET at == IF line.position = Len(line.content) THEN line.position - 1 ELSE line.position
        swapped == [line.content EXCEPT ![at + 1] = line.content[at], ![at] = line.content[at + 1]]
    IN [line EXCEPT !.content = swapped, !.position = at + 1]

Key ==
    /\ ~reverse /\ UNCHANGED <<max, past, search>>
    /\ \/ \E p \in {0, Len(line.content), line.position - 1, line.position + 1} : SetPosition(p)
       \/ \E c \in Characters : Len(line.content) < MaxLength /\ Edit(Insert(c))
       \/ IF line.position > 0 THEN Edit(DeleteBack(1)) ELSE Bell /\ NotCompleting
       \/ /\ line.content # <<>>
          /\ IF line.position < Len(line.content) THEN Edit(DeleteForward(1)) ELSE Bell /\ NotCompleting
       \/ \E forward \in BOOLEAN :
             IF MovesWord(forward) THEN Edit(DeleteWord(forward)) ELSE Bell /\ NotCompleting
       \/ \E forward \in BOOLEAN :
             IF ~MovesWord(forward) THEN Bell /\ NotCompleting
             ELSE Edit([line EXCEPT !.position = IF forward THEN WordEnd ELSE WordStart])
       \/ Edit(Kill)
       \/ IF Len(line.content) < 2 \/ line.position = 0 THEN Bell /\ UNCHANGED completion
          ELSE Edit(Transposed)

ClearLine ==
    /\ ~reverse /\ line.content # <<>>
    /\ UNCHANGED <<max, history, search>>
    /\ Edit(SetLine(<<>>)) /\ history_line' = 0
-----------------------------------------------------------------------------
HistoryIds == {history[i].id : i \in DOMAIN history}
Place(id) == CHOOSE i \in DOMAIN history : history[i].id = id
TextOf(id) == history[Place(id)].text
FreeId == Min((1 .. MaxHistory + 2) \ HistoryIds)

(* reverse_find of the whole text, from the last entry back. *)
Duplicate(text) == Max({0} \cup {i \in DOMAIN history : history[i].text = text})
Remembered(text) ==
    LET others == IF Duplicate(text) = 0 THEN history ELSE RemoveAt(history, Duplicate(text))
    IN Append(others, [id |-> FreeId, text |-> text])

EnterForgetful ==    \* mutant: the place in the history is kept
    /\ ~reverse /\ UNCHANGED <<max, search>>
    /\ IF line.content = <<>> THEN Bell /\ UNCHANGED past
       ELSE /\ history' = Remembered(line.content) /\ Len(line.content) <= MaxEntry /\ Len(history') <= MaxHistory
            /\ Drawn(SetLine(<<>>)) /\ UNCHANGED history_line
    /\ NotCompleting

Enter ==
    /\ ~reverse /\ UNCHANGED <<max, search>>
    /\ IF line.content = <<>> THEN Bell /\ UNCHANGED past
       ELSE /\ history' = Remembered(line.content) /\ Len(line.content) <= MaxEntry /\ Len(history') <= MaxHistory
            /\ Drawn(SetLine(<<>>)) /\ history_line' = 0
    /\ NotCompleting

Show(id) == history_line' = id /\ Edit(SetLine(TextOf(id)))

Up ==
    /\ ~reverse /\ UNCHANGED <<max, history, search>>
    /\ IF history = <<>> THEN Bell /\ UNCHANGED <<history_line, completion>>
       ELSE IF history_line = 0 THEN Show(Last(history).id)
       ELSE IF Place(history_line) > 1 THEN Show(history[Place(history_line) - 1].id)
       ELSE Bell /\ history_line' = history[1].id /\ UNCHANGED completion

Down ==
    /\ ~reverse /\ UNCHANGED <<max, history, search>>
    /\ IF history_line = 0 THEN Bell /\ UNCHANGED <<history_line, completion>>
       ELSE IF Place(history_line) < Len(history) THEN Show(history[Place(history_line) + 1].id)
       ELSE history_line' = 0 /\ Edit(SetLine(<<>>))
-----------------------------------------------------------------------------
HasPart(text, part) ==
    \E i \in 0 .. Len(text) - Len(part) : SubSeq(text, i + 1, i + Len(part)) = part

(* reverse_find, from an entry back. *)
Find(from, part) ==
    Max({0} \cup {i \in 1 .. from : HasPart(history[i].text, part)})
Found(from, part) == LET i == Find(from, part) IN IF i = 0 THEN 0 ELSE history[i].id

SearchBegins ==
    /\ ~reverse /\ reverse' = TRUE /\ Drawn(SetLine(<<>>)) /\ NotCompleting
    /\ UNCHANGED <<max, past, search_line>>

SearchKey ==
    /\ reverse /\ UNCHANGED <<max, past, reverse, completion>>
    /\ \/ \E c \in Characters :
             /\ Len(line.content) < MaxLength /\ Drawn(Insert(c))
             /\ search_line' = Found(IF search_line = 0 THEN Len(history) ELSE Place(search_line),
                                     line'.content)
       \/ /\ search_line' = Found(IF search_line = 0 THEN Len(history) ELSE Place(search_line) - 1,
                                  line.content)
          /\ Bell
       \/ \E l \in {DeleteBack(1), DeleteWord(FALSE)} :
             line.position > 0 /\ Drawn(l) /\ UNCHANGED search_line

(* A control character ends the search, and is handled after it; Ctrl+C    *)
(* gives up what has been found.  The end is one step here; in the code a  *)
(* part of it runs after the lock on the terminal is released.             *)
SearchEnds ==
    /\ reverse /\ reverse' = FALSE /\ search_line' = 0
    /\ IF search_line = 0 THEN Drawn(line)
       ELSE LET text == TextOf(search_line)
                at == Min({i \in 0 .. Len(text) - Len(line.content) :
                             SubSeq(text, i + 1, i + Len(line.content)) = line.content})
            IN Drawn([line EXCEPT !.content = text, !.position = at + Len(line.content)])
    /\ UNCHANGED <<max, past, completion>>

SearchGivenUp ==
    /\ reverse /\ reverse' = FALSE /\ search_line' = 0 /\ Drawn([SetLine(<<>>) EXCEPT !.position = 0])
    /\ NotCompleting /\ UNCHANGED <<max, past>>
-----------------------------------------------------------------------------
(* The completer suggests two endings of a line that ends with a letter.   *)
Suggestions(text) == IF text # <<>> /\ Last(text) = "a" THEN <<<<"a", " ">>, <<"a">>>> ELSE <<>>

Tab ==
    LET before == SubSeq(line.content, 1, line.position - completion_length)
        suggestions == Suggestions(before)
    IN /\ ~reverse /\ UNCHANGED <<max, past, search>>
       /\ IF complete_context < Len(suggestions) /\ Len(before \o After(line)) + 2 <= MaxLength
          THEN LET ending == suggestions[complete_context + 1] IN
               /\ Drawn(LineAt(before \o ending, After(line), line))
               /\ complete_context' = complete_context + 1 /\ completion_length' = Len(ending)
               /\ typed' = IF typed.active THEN typed
                           ELSE [before |-> Before(line), after |-> After(line), active |-> TRUE]
          ELSE Bell /\ UNCHANGED completion

Resize ==
    /\ max' \in Windows \ {max} /\ resized' = TRUE
    /\ UNCHANGED <<line, past, search, completion>>

(* The emulation prints: the line is drawn again. *)
CON_attributed_print == resized /\ UNCHANGED <<max, past, search, completion>> /\ Drawn(line)

EditorNext ==
    \/ Key \/ ClearLine \/ Enter \/ Up \/ Down \/ Tab
    \/ SearchBegins \/ SearchKey \/ SearchEnds \/ SearchGivenUp
    \/ Resize \/ CON_attributed_print

EditorSpec == EditorInit /\ [][EditorNext]_editorVars
-----------------------------------------------------------------------------
(* The cursor is in the window, which is inside a line that is longer and  *)
(* else at its beginning.                                                  *)
CursorShown ==
    ~reverse /\ ~resized =>
        /\ line.position \in line.scroll .. line.scroll + max
        /\ line.position = line.scroll => line.position = 0
        /\ line.scroll + max <= Len(line.content) \/ line.scroll = 0

(* The place in the history is an entry that still exists.  No two entries *)
(* have the same text.  What a search has found contains what is searched. *)
HistoryAlive ==
    /\ history_line \in HistoryIds \cup {0} /\ search_line \in HistoryIds \cup {0}
    /\ \A i, j \in DOMAIN history : history[i].text = history[j].text => i = j
    /\ reverse /\ search_line # 0 => HasPart(TextOf(search_line), line.content)

(* Tab after Tab replaces only what Tab has inserted: what the user has    *)
(* typed is around it.                                                     *)
OnlyTheCompletion ==
    typed.active =>
        /\ SubSeq(line.content, 1, line.position - completion_length) = typed.before
        /\ After(line) = typed.after

LineHolds == CursorShown /\ HistoryAlive /\ OnlyTheCompletion
=============================================================================
