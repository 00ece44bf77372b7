-------------------------- MODULE MCContainerModule -------------------------
(* Instances of ContainerModule for TLC. *)
EXTENDS ContainerModule

CONSTANTS m1, m2, b1, b2, a1, a2

\* "nginx:latest", which is short for "docker.io/library/nginx:latest", and
\* "localhost:5000/app:1".
PartDef == {"nginx", "docker.io/library/nginx", "localhost", "5000/app", "latest", "1"}
FullNameDef == [x \in PartDef |-> IF x = "nginx" THEN "docker.io/library/nginx" ELSE x]
Nginx == <<"docker.io/library/nginx", "latest">>
App == <<"localhost", "5000/app", "1">>
PrivateDef == {App}
ImageDef == {Nginx, App}
RepoTagDef == [i \in ImageDef |-> IF i = Nginx THEN <<"nginx", "latest">> ELSE i]

\* An archive of both images, and one that holds none.
ContentsDef ==
  [a \in {a1, a2} |->
     IF a = a1 THEN <<[ref |-> App, build |-> b2], [ref |-> <<"nginx", "latest">>, build |-> b1]>>
               ELSE <<>>]

StockDef == [i \in ImageDef |-> IF i = Nginx THEN b1 ELSE b2]

\* One container of any image and file, and another that shares an image with it.
ContainersDef ==
  {[module |-> m1, version |-> <<"nginx", "latest">>, file |-> None],
   [module |-> m1, version |-> App, file |-> None],
   [module |-> m1, version |-> <<"nginx">>, file |-> a1],
   [module |-> m1, version |-> App, file |-> a2],
   [module |-> m2, version |-> <<"nginx", "latest">>, file |-> None]}

AppRequestDef ==
  {[name |-> <<"localhost", "5000/app">>, version |-> <<"1">>, file |-> None]}
=============================================================================
