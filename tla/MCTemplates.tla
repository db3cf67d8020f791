---------------------------- MODULE MCTemplates -----------------------------
EXTENDS Templates, TLC

\* index.html.tera, index.html.hbs and page.html.j2
MCWalk == <<"tera", "hbs", "j2">>
MCNameOf == ("tera" :> "index") @@ ("hbs" :> "index") @@ ("j2" :> "page")
MCLazy == {"j2"}
=============================================================================
