-------------------------------- MODULE Themes --------------------------------
(***************************************************************************)
(* Themes of the dashboard: those in the data store, the name of the one   *)
(* that is current (ThemeManager, ThemesRouter, ThemePublicRouter), the    *)
(* settings page that changes them (ThemeSettings) and the theme that is   *)
(* applied to the page (ThemeRuntime).                                     *)
(*                                                                         *)
(* The store is written at once by each call, but in two writes: the       *)
(* themes and the current name; the process may end between them.  Several *)
(* calls of the page are on their way at a time, since the selection is    *)
(* never disabled, and they arrive and are answered in any order.          *)
(***************************************************************************)
EXTENDS Naturals, JavaScript

CONSTANTS
    ThemeNames, \* names that users give
    BuiltIn,    \* the name of the theme that comes with CapRover
    NoName,     \* the empty name
    ThemeCalls, \* requests of the page that may be on their way
    MaxThemes,  \* bound: themes stored
    MaxContents \* bound: contents that users type

ASSUME ThemesAssumption ==
    /\ BuiltIn \notin ThemeNames
    /\ NoName \notin ThemeNames \cup {BuiltIn}
    /\ MaxThemes \in Nat
    /\ MaxContents \in Nat

\* Contents are numbered as they are typed, 0 is that of the built-in theme.
Names == ThemeNames \cup {BuiltIn}
Theme == [name : Names, content : 0 .. MaxContents]
NoTheme == [name |-> NoName, content |-> 0]

VARIABLES
    themes,        \* THEMES of the data store
    currentTheme,  \* CURRENT_THEME, a name
    owed,          \* the second write of the call that is being served
    replaced,      \* history: names replaced by updates that were cut, since currentTheme was written
    settings,      \* the settings page: "closed" or "open"
    listedThemes,  \* the themes it shows
    selectedTheme, \* the one it shows as current
    editor,        \* the theme that is edited, and under which name it is stored
    applied,       \* the theme that ThemeRuntime has applied
    typedThemes,   \* contents typed so far
    request        \* the requests of the page, and their answers

themeStoreVars == <<themes, currentTheme, owed, replaced>>
settingsVars == <<settings, listedThemes, selectedTheme, editor, applied, typedThemes>>
themesVars == <<themeStoreVars, settingsVars, request>>

NoRequest == [op |-> "none", at |-> "none"]
Closed == [oldName |-> NoName, theme |-> NoTheme, shown |-> FALSE]

\* after is what the page does with the answer of a load: nothing more, or
\* tell ThemeRuntime that the theme has changed.
ThemeRequest(op, oldName, theme) ==
    [op |-> op, oldName |-> oldName, theme |-> theme, at |-> "sent", list |-> <<>>, found |-> NoTheme]

ThemesTypeOK ==
    /\ themes \in BoundedSeq(Theme, MaxThemes)
    /\ currentTheme \in Names \cup {NoName}
    /\ owed \in {"nothing", "current", "deletion"}
    /\ replaced \subseteq Names \cup {NoName}
    /\ settings \in {"closed", "open"}
    /\ listedThemes \in BoundedSeq(Theme, MaxThemes + 1)
    /\ selectedTheme \in Theme \cup {NoTheme}
    /\ editor.theme \in Theme \cup {NoTheme}
    /\ applied \in Theme \cup {NoTheme}
    /\ typedThemes \in 0 .. MaxContents
    /\ \A c \in ThemeCalls :
          request[c].op \in {"none", "setcurrent", "update", "delete", "load", "current"}

ThemesInit ==
    /\ themes = <<>>
    /\ currentTheme = NoName
    /\ owed = "nothing"
    /\ replaced = {}
    /\ settings = "closed"
    /\ listedThemes = <<>>
    /\ selectedTheme = NoTheme
    /\ editor = Closed
    /\ applied = NoTheme
    /\ typedThemes = 0
    /\ request = [c \in ThemeCalls |-> NoRequest]

-----------------------------------------------------------------------------
(* The themes                                                              *)

getAllThemes == <<[name |-> BuiltIn, content |-> 0]>> \o themes

Named(list, name) == SelectInSeq(list, LAMBDA it : it.name = name)

\* A name that no theme has is reported, and stands for the default theme.
Find(list, name) == IF Named(list, name) = 0 THEN NoTheme ELSE list[Named(list, name)]

-----------------------------------------------------------------------------
(* The settings page                                                       *)

SendTheme(c, op, oldName, theme) ==
    /\ settings = "open"
    /\ request[c] = NoRequest
    /\ request' = [request EXCEPT ![c] = ThemeRequest(op, oldName, theme)]
    /\ UNCHANGED themeStoreVars

OpenSettings(c) ==
    /\ settings = "closed"
    /\ request[c] = NoRequest
    /\ settings' = "open"
    /\ request' = [request EXCEPT ![c] = ThemeRequest("load", NoName, NoTheme)]
    /\ UNCHANGED <<themeStoreVars, listedThemes, selectedTheme, editor, applied, typedThemes>>

selectTheme(c) ==
    /\ \E name \in {NoName} \cup {it.name : it \in Range(listedThemes)} :
          SendTheme(c, "setcurrent", NoName, [NoTheme EXCEPT !.name = name])
    /\ UNCHANGED settingsVars

\* A built-in theme is copied under a name of its own.
EditTheme ==
    /\ settings = "open"
    /\ selectedTheme # NoTheme
    /\ editor' = [oldName |-> IF selectedTheme.name = BuiltIn THEN NoName ELSE selectedTheme.name,
                  theme |-> selectedTheme, shown |-> TRUE]
    /\ UNCHANGED <<themeStoreVars, settings, listedThemes, selectedTheme, applied, typedThemes, request>>

NewTheme ==
    /\ settings = "open"
    /\ editor' = [Closed EXCEPT !.shown = TRUE]
    /\ UNCHANGED <<themeStoreVars, settings, listedThemes, selectedTheme, applied, typedThemes, request>>

\* The theme is saved with what has been typed, under any name.
saveTheme(c) ==
    /\ editor.shown
    /\ typedThemes < MaxContents
    /\ typedThemes' = typedThemes + 1
    /\ \E name \in Names :
          SendTheme(c, "update", editor.oldName, [name |-> name, content |-> typedThemes + 1])
    /\ UNCHANGED <<settings, listedThemes, selectedTheme, editor, applied>>

deleteSelected(c) ==
    /\ selectedTheme.name \in ThemeNames
    /\ SendTheme(c, "delete", selectedTheme.name, NoTheme)
    /\ UNCHANGED settingsVars

-----------------------------------------------------------------------------
(* ThemeManager                                                            *)

\* Nothing of another call is served between the writes of one.
Serves(c, op) ==
    /\ request[c].op = op
    /\ request[c].at = "sent"
    /\ owed = "nothing"

AnswerTheme(c, outcome) == request' = [request EXCEPT ![c].at = outcome]

setCurrent(c) ==
    /\ Serves(c, "setcurrent")
    /\ request[c].theme.name = NoName \/ Named(getAllThemes, request[c].theme.name) # 0
    /\ currentTheme' = request[c].theme.name
    /\ replaced' = {}
    /\ AnswerTheme(c, "done")
    /\ UNCHANGED <<themes, owed, settingsVars>>

\* saveThemes keeps those that are not built in.
updateTheme(c) ==
    LET old == request[c].oldName
        theme == request[c].theme
        index == Named(getAllThemes, old)
    IN  /\ Serves(c, "update")
        /\ \/ /\ old = NoName
              /\ Named(getAllThemes, theme.name) = 0
              /\ Len(themes) < MaxThemes
              /\ themes' = Append(themes, theme)
           \/ /\ old # NoName
              /\ index > 1
              /\ themes' = [themes EXCEPT ![index - 1] = theme]
        /\ owed' = "current"
        /\ AnswerTheme(c, "serving")
        /\ UNCHANGED <<currentTheme, replaced, settingsVars>>

SetUpdatedTheme(c) ==
    /\ request[c].op = "update"
    /\ request[c].at = "serving"
    /\ currentTheme' = request[c].theme.name
    /\ replaced' = {}
    /\ owed' = "nothing"
    /\ AnswerTheme(c, "done")
    /\ UNCHANGED <<themes, settingsVars>>

WithoutTheme(name) == Filtered(themes, {it \in Theme : it.name # name})

\* Mutant: the theme stays current.
DeleteOnly(c) ==
    /\ Serves(c, "delete")
    /\ Named(themes, request[c].oldName) # 0
    /\ owed' = "deletion"
    /\ AnswerTheme(c, "serving")
    /\ UNCHANGED <<themes, currentTheme, replaced, settingsVars>>

\* A theme that is current stops being so before it goes.
deleteTheme(c) ==
    /\ Serves(c, "delete")
    /\ Named(themes, request[c].oldName) # 0
    /\ currentTheme' = IF currentTheme = request[c].oldName THEN NoName ELSE currentTheme
    /\ owed' = "deletion"
    /\ AnswerTheme(c, "serving")
    /\ UNCHANGED <<themes, replaced, settingsVars>>

DeleteStoredTheme(c) ==
    /\ request[c].op = "delete"
    /\ request[c].at = "serving"
    /\ themes' = WithoutTheme(request[c].oldName)
    /\ owed' = "nothing"
    /\ AnswerTheme(c, "done")
    /\ UNCHANGED <<currentTheme, replaced, settingsVars>>

\* The theme is not there, or one of this name is; or another request has not
\* been answered yet (429), or the connection is lost.
ThemeFails(c) ==
    /\ request[c].at = "sent"
    /\ AnswerTheme(c, "failed")
    /\ UNCHANGED <<themeStoreVars, settingsVars>>

\* The page asks for the themes and for the current one; each is answered as it
\* is then.
ListThemes(c) ==
    /\ Serves(c, "load")
    /\ request' = [request EXCEPT ![c].list = getAllThemes, ![c].at = "listed"]
    /\ UNCHANGED <<themeStoreVars, settingsVars>>

getCurrentTheme(c) ==
    /\ \/ Serves(c, "current")
       \/ request[c].op = "load" /\ request[c].at = "listed" /\ owed = "nothing"
    /\ request' = [request EXCEPT ![c].found = Find(getAllThemes, currentTheme), ![c].at = "done"]
    /\ UNCHANGED <<themeStoreVars, settingsVars>>

\* The process ends, and starts again; a call that was being served is lost.
ProcessEnds ==
    /\ owed # "nothing"
    /\ owed' = "nothing"
    /\ replaced' = replaced \cup {request[c].oldName : c \in {d \in ThemeCalls :
                                  request[d].op = "update" /\ request[d].at = "serving"}}
    /\ request' = [c \in ThemeCalls |-> IF request[c].at = "serving"
                                        THEN [request[c] EXCEPT !.at = "failed"] ELSE request[c]]
    /\ UNCHANGED <<themes, currentTheme, settingsVars>>

-----------------------------------------------------------------------------
(* The answers                                                             *)

Got(c, op) == request[c].op = op /\ request[c].at = "done"

\* The page then loads the themes, or has ThemeRuntime load the current one.
Follow(c, op) == request' = [request EXCEPT ![c] = ThemeRequest(op, NoName, NoTheme)]

ThemeSelected(c) ==
    /\ Got(c, "setcurrent")
    /\ selectedTheme' = Find(listedThemes, request[c].theme.name)
    /\ Follow(c, "current")
    /\ UNCHANGED <<themeStoreVars, settings, listedThemes, editor, applied, typedThemes>>

ThemeSaved(c) ==
    /\ Got(c, "update")
    /\ editor' = Closed
    /\ Follow(c, "load")
    /\ UNCHANGED <<themeStoreVars, settings, listedThemes, selectedTheme, applied, typedThemes>>

ThemeDeleted(c) ==
    /\ Got(c, "delete")
    /\ Follow(c, "load")
    /\ UNCHANGED <<themeStoreVars, settingsVars>>

SettingsLoaded(c) ==
    /\ Got(c, "load")
    /\ listedThemes' = request[c].list
    /\ selectedTheme' = request[c].found
    /\ Follow(c, "current")
    /\ UNCHANGED <<themeStoreVars, settings, editor, applied, typedThemes>>

applyCapRoverTheme(c) ==
    /\ Got(c, "current")
    /\ applied' = request[c].found
    /\ request' = [request EXCEPT ![c] = NoRequest]
    /\ UNCHANGED <<themeStoreVars, settings, listedThemes, selectedTheme, editor, typedThemes>>

\* The error is shown, and all else stays.
ErrorShown(c) ==
    /\ request[c].at = "failed"
    /\ request' = [request EXCEPT ![c] = NoRequest]
    /\ UNCHANGED <<themeStoreVars, settingsVars>>

ThemesNext ==
    \/ \E c \in ThemeCalls :
          \/ OpenSettings(c)
          \/ selectTheme(c)
          \/ saveTheme(c)
          \/ deleteSelected(c)
          \/ setCurrent(c)
          \/ updateTheme(c)
          \/ SetUpdatedTheme(c)
          \/ deleteTheme(c)
          \/ DeleteStoredTheme(c)
          \/ ThemeFails(c)
          \/ ListThemes(c)
          \/ getCurrentTheme(c)
          \/ ThemeSelected(c)
          \/ ThemeSaved(c)
          \/ ThemeDeleted(c)
          \/ SettingsLoaded(c)
          \/ applyCapRoverTheme(c)
          \/ ErrorShown(c)
    \/ EditTheme
    \/ NewTheme
    \/ ProcessEnds

ThemesSpec == ThemesInit /\ [][ThemesNext]_themesVars

-----------------------------------------------------------------------------
(* Properties                                                              *)

\* Unless a call is between its two writes, the current theme is one that exists,
\* or one that an update was about to replace when it was cut: a deletion that is
\* cut short, a theme that is added, names given twice and requests that arrive
\* in another order do not leave the name of a theme that has gone, and the next
\* write of the name mends what a cut update has left (deleteTheme, updateTheme,
\* setCurrent).
CurrentThemeExists ==
    owed = "nothing" =>
        \/ currentTheme \in replaced \cup {NoName}
        \/ Named(getAllThemes, currentTheme) # 0

\* The same, whatever was cut.  It is violated: an update writes the themes, with
\* the new name, before the current name.
CurrentThemeAlwaysExists ==
    owed = "nothing" => currentTheme = NoName \/ Named(getAllThemes, currentTheme) # 0

\* A page with nothing on its way applies the current theme.  It need not:
\* selections may arrive, and refreshes may be answered, in another order.
CurrentThemeIsApplied ==
    settings = "open" /\ (\A c \in ThemeCalls : request[c] = NoRequest) =>
        applied = Find(getAllThemes, currentTheme)

\* The theme that was saved last is the one that is then current.  It is not, if
\* it was given the name of another theme, a built-in one too.
SavedThemeIsCurrent ==
    \A c \in ThemeCalls : Got(c, "update") /\ request[c].theme.name = currentTheme =>
        Find(getAllThemes, currentTheme) = request[c].theme

=============================================================================
