------------------------------ MODULE MCFetch ------------------------------
(* URLs that have one key or nearly one, and some that are not asked for.    *)
EXTENDS Fetch, TLC

CONSTANTS html, c1, c2

SomeWords == {"http", "https", "ftp", "a", "b", "80"}

SomeLower == ("HTTP" :> "http") @@ ("A" :> "a")

At(host, rest) == <<"http", ":", "/", "/">> \o host \o rest

NineLabels(first) == <<first, ".", "a", ".", "a", ".", "a", ".", "a", ".",
                       "a", ".", "a", ".", "a", ".", "a">>

(* To another site, to the same one by another scheme, and to what send_get  *)
(* refuses.                                                                  *)
Redirects == {At(<<"b", ".", "a">>, <<"/">>), <<"https", ":", "/", "/", "a", "/">>,
              <<"ftp", ":", "/", "/", "a", "/">>}

Urls ==
  {At(<<"a">>, <<>>), At(<<"a">>, <<"/">>), At(<<"A">>, <<"/", "A">>),
   At(<<"a">>, <<"/", "a">>), At(<<"a">>, <<"/", "A", "#", "b">>),
   At(<<"a", ":", "80">>, <<"/">>), At(<<"a">>, <<"/", "?", "b">>),
   At(<<"a", ".", "b">>, <<"/">>), At(<<"b", ".", "a">>, <<"/">>),
   At(<<"a", "?", "b">>, <<>>), At(<<"a", "#", "b">>, <<>>),
   At(<<"a", ".", ".", "b">>, <<"/">>), At(<<"b", "@", "a">>, <<"/">>),
   At(<<"a", ".">>, <<"/">>),
   At(NineLabels("a"), <<"/">>), At(SubSeq(NineLabels("b"), 3, 17), <<"/">>),
   <<"https", ":", "/", "/", "a", "/">>, <<"HTTP", ":", "/", "/", "A", "/">>,
   <<"ftp", ":", "/", "/", "a", "/">>,
   <<"/", "/", "a", "/">>, <<"/", "a">>, <<"a">>, <<":", "/", "/", "a">>}
=============================================================================
