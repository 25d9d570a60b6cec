------------------------------- MODULE MCNativeCall -------------------------------
(* Functions to call for NativeCall.                                       *)
EXTENDS NativeCall

Registered(kind, returns, parameters, defaults) ==
  [kind |-> kind, returns |-> returns, parameters |-> parameters, defaults |-> defaults,
   from_info |-> FALSE]

\* A constructor of a class that can also be made from the callback info; one that
\* takes two objects; a method with the parameters that use no argument; a static
\* method that is given a pointer to its default; a fake method; and one with a
\* reference to what can be made from the callback info.
Some ==
  {[Registered("constructor", FALSE, <<"value", "rvalue">>, 1) EXCEPT !.from_info = TRUE],
   Registered("method", TRUE, <<"unique_ptr", "wrapped pointer", "unique_ptr">>, 0),
   Registered("method", FALSE, <<"isolate", "local", "pointer">>, 1),
   Registered("static", TRUE, <<"wrapped", "pointer", "value">>, 2),
   Registered("fake", TRUE, <<"value", "value">>, 1),
   Registered("method", FALSE, <<"wrapped pointer", "from info">>, 0)}

\* What the theorem about ParametersGetTheirs asks of them.
ASSUME SomeReach == \A c \in Some : DefaultsReach(c)

Lists ==
  {<<>>, <<"plain">>, <<"plain", "plain">>, <<"plain", "plain", "plain">>, <<"o1">>,
   <<"foreign", "o1">>,
   <<"o1", "plain">>, <<"o1", "foreign", "o2">>,
   <<"o1", "o1", "o2">>, <<"o1", "o2", "o1">>, <<"o2", "o1", "o1">>}
===============================================================================
