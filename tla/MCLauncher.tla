----------------------------- MODULE MCLauncher -----------------------------
(* The launcher with a game and a test animation, a profile for the game,  *)
(* and one command line that saves a profile naming a title.               *)
EXTENDS Launcher

Catalog == INSTANCE WindowCatalog
Text == INSTANCE ProfileText

MCExecutableOf == [w \in Windows |-> IF w = TestWindow THEN "test" ELSE "game"]

MCCliArguments ==
    { << <<"setting", "b">>, <<"ui-mask", "right">> >>,
      << <<"title", "game">> >> }

(* A display configuration that settles within three tries is read, on     *)
(* systems that know the flag for virtual refresh rates and on those that  *)
(* do not.                                                                 *)
ASSUME DisplaysAreRead ==
    \A plain \in [1..3 -> {"ok", "insufficient"}],
       virtual \in [1..3 -> {"ok", "insufficient", "invalid"}] :
        (\E k \in 1..3 : plain[k] = "ok") => Catalog!Answered(virtual, plain)

(* A title names a target exactly when it leaves one window, and never the  *)
(* session's own.                                                          *)
ASSUME TargetsAreNamed ==
    LET Entry(h, p, t) == [handle |-> h, process_id |-> h, process |-> p, title |-> t]
        Shown(e) == [visible |-> TRUE, iconic |-> FALSE, cloaked |-> FALSE,
                     disabled |-> FALSE, entry |-> e]
        desktop == {Shown(Entry(h, p, t)) : h \in 1..2, p \in 0..1, t \in 0..2}
    IN  \A shown \in SUBSET desktop, fragment \in SUBSET (1..2) :
            LET entries == Catalog!ListCapturableWindows(shown, 2)
                found == Catalog!ResolveTarget(0, {}, entries, fragment)
            IN  /\ found.handle # 2
                /\ found.error = "none" <=>
                       Cardinality(Catalog!SelectWindowsMatching(entries, fragment)) = 1

(* The settings saved for two programs are read back as they were exactly  *)
(* when no argument holds a quote, which the file cannot express, or       *)
(* starts a line the file takes for a comment or a header.  Texts are of   *)
(* at most three characters, one of each kind the parser tells apart.      *)
ASSUME ProfilesAreReadBack ==
    LET characters == {"a", "A", " ", "#", ";", "[", "]", Text!Quote}
        values == UNION {[1..n -> characters] : n \in 0..2}
                      \cup {<<"a">> \o v : v \in [1..2 -> characters]}
        Entry(name, arguments) == [executable |-> name, arguments |-> arguments]
        Kept(v) == /\ \A k \in DOMAIN v : v[k] # Text!Quote
                   /\ v # <<>> /\ v[1] \in {"#", ";", "["} => \E k \in DOMAIN v : v[k] = " "
    IN  \A v \in values, w \in {<<>>, <<"a">>, <<"]", " ">>} :
            LET entries == <<Entry(<<"a", " ", "a">>, <<v, w>>), Entry(<<"a">>, <<w>>)>>
                read == Text!ParseProfiles(Text!FormatProfiles(entries))
            IN  (read.error = "none" /\ read.entries = entries) <=> Kept(v)

(* A file that names a program twice, in whatever case, stores all of what *)
(* it says of it; what precedes a header or leaves a quote open is refused *)
(* as a whole.                                                             *)
ASSUME SectionsAreMerged ==
    LET Header(name) == <<"[">> \o name \o <<" ", "]">>
        names == {<<"a">>, <<"A">>, <<"a", "a">>}
    IN  \A first \in names, second \in names :
            LET read == Text!ParseProfiles(<<Header(first), <<"a">>, <<";", "[">>,
                                             Header(second), <<"A", " ", "a">>>>)
                stored == Text!FindProfileArguments(read.entries, first)
            IN  /\ read.error = "none"
                /\ stored = IF Len(first) = Len(second)
                            THEN {<< <<"a">>, <<"A">>, <<"a">> >>}
                            ELSE {<< <<"a">> >>}
                /\ Text!ParseProfiles(<< <<"a">>, Header(first)>>).error = "section"
                /\ Text!ParseProfiles(<<Header(first), <<Text!Quote, "a">>, Header(second)>>).error
                      = "quote"
=============================================================================
