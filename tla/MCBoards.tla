----------------------------- MODULE MCBoards -----------------------------
EXTENDS Boards, Crc

MCWirings == [c \in {"8825", "8834"} |->
  IF c = "8825" THEN {{"dir", "reset"}, {"mode0", "mode1", "mode2"}, {"decay"}} ELSE {{"mode0", "mode1"}, {"mode1", "enable"}}]
MCSizes == [c \in {"8825", "8834"} |-> IF c = "8825" THEN {0, 5} ELSE {1, 4}]

MCOrders == {-1, 0, 2}
MCAngles == {-90, 45, 120}
MCLevels == {-1, 50, 101}
MCDuties == {<<50, 100>>, <<100, 50>>, <<900, 1100>>}

OfChips(old, new) == [c \in {"2835", "2711"} |-> IF c = "2835" THEN old ELSE new]
MCGpioEdges == OfChips({"none"}, {"none", "both"})
MCGpioLevels == OfChips({1}, {})
MCMaxStarts == OfChips(2, 1)
MCGpioFaults == OfChips(0, 1)

MCReadings == {<<400, 0>>, <<500, 9>>}
MCBaselines == {<<7, 300>>}
(* The frames that Crc gives, written out: TLC takes a constant's value from *)
(* its definition again and again.                                          *)
MCValid == {<<0, 0, 129>>, <<0, 7, 22>>, <<0, 9, 9>>, <<1, 44, 142>>, <<1, 144, 76>>, <<1, 244, 51>>}
ASSUME MCValidAssumption == MCValid = {<<w \div 256, w % 256, Crc(<<w \div 256, w % 256>>)>> : w \in {0, 7, 9, 300, 400, 500}}

MCLights == {<<40, 10>>, <<400, 100>>, <<4800, 2000>>, <<60000, 40000>>}
MCAirs == {<<2000, 0>>, <<30000, 25000>>, <<60000, 30000>>}
Measuring(mode, p, t, filter) == [mode |-> mode, p |-> p, t |-> t, standby |-> 5, filter |-> filter]
MCSettings ==
  {Measuring("FORCED", 1, 255, 4), Measuring("NORMAL", 5, 2, 4), Measuring("SLEEP", 0, 255, 8), Measuring("NORMAL", 8, 2, 8)}

Own(x) == [own |-> TRUE, name |-> <<x, 0>>]
At(pin) == [own |-> FALSE, name |-> <<"SIMPLE", pin>>]
Item(type, name, gpios, part) ==
  [type |-> type, name |-> name, gpios |-> gpios, part |-> part, words |-> TRUE, strips |-> 2, room |-> 1, bits |-> 4]
Provider(type, name) == [type |-> type, name |-> name, pins |-> 8, pwm |-> "exp", channels |-> 2]
OneGpio(name, provider, pin, mode) == [name |-> name, provider |-> provider, pin |-> pin, mode |-> mode]
MCProviderEntries ==
  {Provider("SPI", "SPI"), Provider("MCP23008", "exp"), Provider("PCA9685", "pca"), Provider("FAKE", "exp")}
MCGpioEntries ==
  {OneGpio(<<"SIMPLE", 4>>, "SIMPLE", 4, "IN"), OneGpio(<<"x", 0>>, "SIMPLE", 4, "OUT"),
   OneGpio(<<"x", 0>>, "SIMPLE", 5, "OUT"), OneGpio(<<"exp", 7>>, "exp", 7, "PWM"),
   OneGpio(<<"SIMPLE", 12>>, "SIMPLE", 12, "OUT")}
MCItemEntries ==
  {Item("BUTTON", "a", <<At(4)>>, ""), Item("LED", "a", <<Own("x")>>, ""), Item("BUTTON", "b", <<Own("x")>>, ""),
   Item("DCMotor", "b", <<At(4), At(12)>>, "a"), Item("BLINKER", "c", <<>>, "a"),
   Item("SLEDCTRLSPI", "c", <<>>, ""), Item("SLEDCTRLPWM", "b", <<At(12)>>, "a"),
   Item("AnalogMeterSimple", "b", <<>>, "a"), Item("AnalogLightMeter", "c", <<>>, "a"),
   Item("SI7021", "c", <<>>, ""), Item("LCD", "b", <<At(4), At(12)>>, ""), Item("Tmp36", "c", <<>>, "")}
MCBounds == [providers |-> 2, gpios |-> 2, items |-> 3]
MCOrder == <<"a", "b", "c">>
=============================================================================
