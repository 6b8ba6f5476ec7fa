--------------------------- MODULE MCSessionView ---------------------------
(***************************************************************************)
(* Two sessions of a desktop and a phone, and the layouts of a small       *)
(* application: a list with the form of its current row for the menu, a    *)
(* form with a child list for details, a list to choose a reference from.  *)
(***************************************************************************)
EXTENDS SessionView, TLC

CONSTANTS s1, s2, desktop, phone, books, authors, menu, detail, select

MCMedia == (s1 :> desktop) @@ (s2 :> phone)

ListLayout ==
    [model |-> AnyModel, pri |-> 0, media |-> {}, usage |-> {menu},
     tag |-> <<"vbox", "list", "title", "form">>, parent |-> <<0, 1, 2, 2>>]

DetailLayout ==
    [model |-> books, pri |-> 5, media |-> {}, usage |-> {detail},
     tag |-> <<"form", "fieldbox", "title", "list">>,
     parent |-> <<0, 1, 2, 1>>]

PlainLayout ==
    [model |-> AnyModel, pri |-> 0, media |-> {}, usage |-> {detail},
     tag |-> <<"form">>, parent |-> <<0>>]

(* 200 wraps to -56: the layout for phones does not win. *)
PhoneLayout ==
    [model |-> books, pri |-> 200, media |-> {phone}, usage |-> {detail},
     tag |-> <<"form">>, parent |-> <<0>>]

SelectLayout ==
    [model |-> books, pri |-> 3, media |-> {desktop}, usage |-> {select},
     tag |-> <<"list">>, parent |-> <<0>>]

MCParsed == <<ListLayout, DetailLayout, PlainLayout, PhoneLayout, SelectLayout>>
=============================================================================
