------------------------------ MODULE MCRouter ------------------------------
(***************************************************************************)
(* A small application: the routes differ in every way that matching tells *)
(* apart (method, path color, trailing parameter, query, format), and the  *)
(* requests hit each of the differences.                                   *)
(***************************************************************************)
EXTENDS Router

CONSTANTS a, b, a_encoded, GET, POST, json, html

MCDecode(t) == IF t = a_encoded THEN a ELSE t

Json == [top |-> json, sub |-> json]
Html == [top |-> html, sub |-> html]
AnyHtml == [top |-> Wildcard, sub |-> html]

MCUnmounted ==
    { NewRoute(GET, NoFormat, <<Static(Empty)>>, <<>>),
      NewRoute(GET, NoFormat, <<Static(a)>>, <<>>),
      NewRoute(GET, Json, <<Static(a)>>, <<Static(b)>>),
      NewRoute(GET, NoFormat, <<Dynamic>>, <<>>),
      NewRoute(GET, NoFormat, <<Trailing>>, <<>>),
      NewRoute(GET, NoFormat, <<Static(a), Trailing>>, <<>>),
      NewRoute(GET, NoFormat, <<Dynamic, Static(b)>>, <<>>),
      NewRoute(POST, Json, <<Static(a)>>, <<>>),
      NewRoute(POST, AnyHtml, <<Static(a)>>, <<>>),
      NewRoute(NoMethod, Html, <<Static(a)>>, <<>>) }

MCPaths == { <<Empty>>, <<a>>, <<b>>, <<a, Empty>>, <<a, a>>, <<a, b>>,
             <<a, Empty, b>>, <<a, a, b>>, <<a, b, Empty>> }

MCRequests ==
    [method : {GET}, uri : [path : MCPaths, query : {NoQuery, <<b>>, <<a, Empty, b>>}],
     ctype : {NoFormat}, accept : {NoFormat, Json, Html}]
    \cup
    [method : {POST}, uri : [path : MCPaths, query : {NoQuery}],
     ctype : {NoFormat, Json, Html, AnyHtml}, accept : {NoFormat}]

MCBases == { <<Empty>>, <<a>>, <<a, Empty>> }
MCScopes == { <<Empty>>, <<a>>, <<a, Empty>>, <<a, b>>, <<Empty, b>>, <<a_encoded>> }
=============================================================================
