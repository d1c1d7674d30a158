------------------------------ MODULE MCClicks ------------------------------
(* Clicks on a few messages of the game and one of another chat. *)
EXTENDS Clicks, TLC

CONSTANTS none, game, friend

Message(chat, words, buttons, pct, cur, max) ==
    [chat |-> chat, words |-> words, buttons |-> buttons, pct |-> pct, cur |-> cur,
     max |-> max]

Town == Message(game, {"Hora de Cacar"}, <<"Ir cacar", "Inventario">>, 0, 0, 0)
Fight == Message(game, {"HP 29/100"}, <<"Consumiveis", "Atacar">>, 0, 29, 100)
Shop == Message(game, {"Loja"}, <<"Comprar", "Comprar 5">>, 0, 0, 0)
Won == Message(game, {"vitoria", "HP: 80%"}, <<"Cacar de novo">>, 80, 0, 0)
Chat == Message(friend, {}, <<"Atacar">>, 0, 0, 0)

Parts == {<<"Ir cacar", "Cacar">>, <<"Hora de Cacar", "Cacar">>,
          <<"Cacar de novo", "Cacar">>,
          <<"Comprar 5", "Comprar">>}

FloatShort == {<<29, 100>>, <<57, 100>>, <<58, 100>>}

MessagesPass == {Town, Fight, Chat}
MessagesLearned == {Shop, Won}
Labels == {"Ir cacar", "Cacar"}
Bought == {"Comprar 5"}
=============================================================================
