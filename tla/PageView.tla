------------------------------- MODULE PageView -------------------------------
(***************************************************************************)
(* A page and its graph: how it comes to have the graph of a worker, and    *)
(* how what it has comes onto the screen.  The two share no state: PageSync *)
(* has one relation of a node at a time and all its shapes, GraphView has    *)
(* words, dictionaries and components and one page.                         *)
(***************************************************************************)
EXTENDS PageSync, GraphView

VARIABLE side  \* which of them is looked at; never changes

pageViewVars == <<side, pageVars, graphViewVars>>

PageViewInit ==
  /\ side \in {"page", "view"}
  /\ Init /\ GraphViewInit
  /\ side = "page" => stream.dict = CHOOSE d \in DOMAIN Dictionaries : TRUE
  /\ side = "view" => scene = CHOOSE s \in Scenes : TRUE

PageViewNext ==
  /\ UNCHANGED side
  /\ \/ side = "page" /\ Next /\ UNCHANGED graphViewVars
     \/ side = "view" /\ GraphViewNext /\ UNCHANGED pageVars

PageViewSpec == PageViewInit /\ [][PageViewNext]_pageViewVars
=============================================================================
