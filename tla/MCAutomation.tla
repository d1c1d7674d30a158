---------------------------- MODULE MCAutomation ----------------------------
(* Automation on a few screens of the game, as the parser yields them. *)
EXTENDS Automation, TLC

CONSTANT none

Screen(st, hp, potions, energy, energyMax, buttons) ==
    [state |-> st, hp |-> hp, potions |-> potions, energy |-> energy,
     energyMax |-> energyMax, buttons |-> buttons]

Town == Screen("MAIN_MENU", 0, 1, 10, 10, {"Cacar", "Masmorra", "Loja"})
Tired == Screen("MAIN_MENU", 0, -1, 0, 10, {"Cacar", "Energia"})
Fight == Screen("COMBAT", 20, -1, 0, 0, {"Atacar", "Consumiveis"})
Won == Screen("VICTORY", 80, -1, 0, 0, {"Cacar de novo"})
Exhausted == Screen("NO_ENERGY", 20, -1, 0, 10, {"Menu", "Consumiveis"})
Shop == Screen("UNKNOWN", 0, 1, 0, 0, {"Comprar", "Comprar 5"})
Room == Screen("DUNGEON", 0, 1, 0, 0, {"Criar sala", "Iniciar", "Loja"})

ScreensFallback == {Town, Fight}
ScreensVisible == {Town, Tired, Fight, Won, Exhausted, Shop, Room}
ScreensWorkers == {Room, Exhausted}

AllOn == {"hunt", "combat", "heal", "potion", "dungeon"}
OnOff == {AllOn, {}}
HuntOrFight == {{"hunt"}, {"combat", "potion"}}
Learned == {"Loja"}
NoRules == {}
=============================================================================
