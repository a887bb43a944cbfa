------------------------------ MODULE Profiles ------------------------------
(***************************************************************************)
(* The fixture profiles (fixture/profile): for every type of fixture, and  *)
(* every mode of those with several, which control its render writes to    *)
(* which DMX channel, and under what conditions.                           *)
(*                                                                         *)
(* What is kept of a profile is the shape of its render function: each     *)
(* write has the control it takes its value from, its channel, counted     *)
(* from the fixture's address, and the switches that must be on or off for *)
(* the write to happen.  The values, their ranges, detents and animations  *)
(* are left out: a control that is written is written in full, and an      *)
(* array of controls is one.  A constant is a control that nobody moves.   *)
(* Switches are the Bool controls that decide whether something is         *)
(* written, and these:                                                     *)
(*   "enabled"   strobing is enabled for the group                         *)
(*   "strobing"  the master strobe is on                                   *)
(*   "strobe"    strobe_intensity() is Some: the strobe overrides          *)
(*   "flash"     strobe_shutter() is Some(true)                            *)
(*   "organ"     the color organ has a color for the fixture               *)
(*   "spinning"  the Moonraker's head is in phase Spinning                 *)
(***************************************************************************)
EXTENDS Naturals

\* Control c is rendered to the channels chs, whatever the switches are.
Put(c, chs) == {[from |-> c, ch |-> n, on |-> {}, off |-> {}] : n \in chs}
Fixed(chs) == Put("fixed", chs)
Zero(chs) == Put("zero", chs)

\* The writes of a branch of the render function.
When(s, writes) == {[w EXCEPT !.on = @ \cup {s}] : w \in writes}
Unless(s, writes) == {[w EXCEPT !.off = @ \cup {s}] : w \in writes}
IfElse(s, yes, no) == When(s, yes) \cup Unless(s, no)

\* A control that was made `strobed`: Unipolar and Bool render the strobe's
\* intensity in its place while the strobe overrides.
Strobed(c, chs) == IfElse("strobe", Put("strobe", chs), Put(c, chs))

\* An embedded Color: an organ's color goes before the strobe, and the strobe
\* before the level (Color::render_for_model).
Colored(chs) == IfElse("organ", Put("organ", chs), Strobed("Val", chs))

\* type: the fixture type; count: its channels; strobe: how it responds to a
\* flash, "none" if it cannot strobe; light: the control its light goes
\* through if the strobe is to override it, "none" if there is none.
Fixture(type, count, strobe, light, writes) ==
    [type |-> type, count |-> count, strobe |-> strobe, light |-> light,
     writes |-> writes]

EmptyChannel == Fixture("EmptyChannel", 0, "none", "none", {})

(***************************************************************************)
(* One channel, one control                                                *)
(***************************************************************************)
Atlas == Fixture("Atlas", 1, "none", "none", Put("Shutter", {0}))
Radiance == Fixture("Radiance", 2, "none", "none",
    Put("Haze", {0}) \cup Put("Fan", {1}))
Aquarius == Fixture("Aquarius", 2, "none", "none",
    Put("Rotation", {0}) \cup Put("LampOn", {1}))
Dimmer == Fixture("Dimmer", 1, "Long", "Level", Strobed("Level", {0}))
Relay == Fixture("Relay", 1, "Short", "On", Strobed("On", {0}))
UvLedBrick == Fixture("UvLedBrick", 7, "Short", "Level",
    Strobed("Level", {0}) \cup Fixed(4 .. 6))
Starlight == Fixture("Starlight", 4, "Short", "Dimmer",
    Strobed("Dimmer", {1}) \cup Put("Rotation", {3}) \cup Fixed({0, 2}))
CosmicBurst == Fixture("CosmicBurst", 6, "Short", "Dimmer",
    Strobed("Dimmer", {2}) \cup Put("Rotation", {0}) \cup Put("Swirl", {3})
        \cup Fixed({1}))
Astroraggi == Fixture("Astroraggi", 2, "Long", "Shutter",
    Put("Rotation", {0}) \cup Strobed("Shutter", {1}))
RotosphereQ3 == Fixture("RotosphereQ3", 9, "Short", "Val",
    Colored(0 .. 3) \cup Put("Rotation", {5}) \cup Fixed({4, 6, 7, 8}))
IWashLed == Fixture("IWashLed", 12, "Short", "Val",
    Put("Pan", {0, 1}) \cup Put("Tilt", {2, 3}) \cup Colored(7 .. 9)
        \cup Fixed({4, 5, 6, 10, 11}))
Ufo == Fixture("Ufo", 14, "Short", "Val",
    Put("Pan", {0}) \cup Put("Tilt", {1}) \cup Put("Rotation", {3})
        \cup Colored(6 .. 9) \cup Fixed({2, 4, 5} \cup (10 .. 13)))
Eyeball == Fixture("Eyeball", 17, "Short", "Val",
    Put("Pan", {0, 1}) \cup Put("Tilt", {2, 3}) \cup Put("PanSpin", {5})
        \cup Put("TiltSpin", {6}) \cup Colored(7 .. 10)
        \cup Fixed({4} \cup (11 .. 16)))
Faderboard == Fixture("Faderboard", 16, "none", "none",
    Put("Fader", 0 .. 15))
Venus == Fixture("Venus", 8, "none", "none",
    Put("BaseRotation", {0, 1}) \cup Put("CradleMotion", {2})
        \cup Put("HeadRotation", {3, 4}) \cup Put("ColorRotation", {5, 6})
        \cup Put("LampControl", {7}))
Astera == Fixture("Astera", 20, "none", "none",
    Put("Dimmer", {0}) \cup Put("Program", {2}) \cup Put("Speed", {3})
        \cup Put("Fade", {4}) \cup Put("Pattern", {5}) \cup Fixed({1, 6, 7})
        \cup Put("Color", 8 .. 19))
RugDoctor == Fixture("RugDoctor", 20, "none", "none",
    Put("Level", {0}) \cup Put("Speed", {3}) \cup Put("Preset", {2} \cup (8 .. 19))
        \cup Fixed({1} \cup (4 .. 7)))
\* Controlled over HTTP and OSC, without DMX.
Wled == Fixture("Wled", 0, "none", "none", {})
Lumitone == Fixture("Lumitone", 0, "none", "none", {})

(***************************************************************************)
(* Controls that share a channel                                           *)
(***************************************************************************)
SolarSystem == Fixture("SolarSystem", 7, "none", "none",
    Put("FrontGobo", {0}) \cup Put("FrontRotation", {1, 2})
        \cup Put("RearGobo", {3}) \cup Put("RearRotation", {4, 5})
        \cup IfElse("ShutterOpen",
                IfElse("AutoShutter", Put("auto", {6}), Put("open", {6})),
                Zero({6})))
Lumasphere == Fixture("Lumasphere", 9, "none", "none",
    Put("Lamp1Intensity", {7}) \cup Put("Lamp2Intensity", {8})
        \cup Put("BallRotation", {0, 1}) \cup Put("ColorRotation", {2})
        \cup IfElse("Strobe1On", Put("Strobe1", {3, 4}), Zero({3, 4}))
        \cup IfElse("Strobe2On", Put("Strobe2", {5, 6}), Zero({5, 6})))
Colordynamic == Fixture("Colordynamic", 4, "Long", "ShutterOpen",
    Fixed({0}) \cup Put("FiberRotation", {2}) \cup Strobed("ShutterOpen", {3})
        \cup IfElse("ColorRotationOn",
                Put("ColorRotationSpeed", {1}), Put("ColorPosition", {1})))
H2O == Fixture("H2O", 3, "Short", "Dimmer",
    Strobed("Dimmer", {0}) \cup Put("Rotation", {1})
        \cup IfElse("ColorRotate", Put("ColorRotation", {2}), Put("FixedColor", {2})))
Abyss2 == Fixture("Abyss2", 3, "Short", "Dimmer",
    Strobed("Dimmer", {0}) \cup Put("Wave", {2})
        \cup IfElse("ColorRotate", Put("ColorRotation", {1}), Put("FixedColor", {1})))
Chizlet == Fixture("Chizlet", 9, "Short", "Dimmer",
    Put("DrumSwivel", {0}) \cup Put("DrumRotation", {1}) \cup Put("Gobo", {2})
        \cup Put("ReflectorRotation", {3}) \cup Strobed("Dimmer", {5})
        \cup Fixed({4, 6, 7, 8}))
Wizlet == Fixture("Wizlet", 12, "Short", "Dimmer",
    Put("DrumSwivel", {0}) \cup Put("DrumRotation", {1}) \cup Put("Gobo", {2})
        \cup Put("ReflectorRotation", {3}) \cup Strobed("Dimmer", {5})
        \cup Fixed({4} \cup (6 .. 11)))
WizardExtreme == Fixture("WizardExtreme", 11, "Long", "Dimmer",
    Strobed("Dimmer", {0}) \cup Put("ReflectorRotation", {1})
        \cup IfElse("Twinkle", Put("TwinkleSpeed", {2}), Put("Color", {2}))
        \cup Put("Gobo", {4}) \cup Put("DrumSwivel", {6})
        \cup Put("DrumRotation", {7}) \cup Fixed({3, 5, 8, 9, 10}))
RushWizard == Fixture("RushWizard", 10, "Long", "Dimmer",
    Strobed("Dimmer", {1}) \cup Put("Gobo", {3}) \cup Put("DrumRotation", {4})
        \cup IfElse("Twinkle", Put("TwinkleSpeed", {2}), Put("Color", {2}))
        \cup Put("DrumSwivel", {5}) \cup Put("ReflectorRotation", {6})
        \cup Fixed({0, 7, 8, 9}))
Astroscan == Fixture("Astroscan", 9, "Long", "Dimmer",
    Put("Iris", {0}) \cup Put("Color", {1}) \cup Put("LampOn", {2})
        \cup Strobed("Dimmer", {3}) \cup Put("Pan", {4}) \cup Put("Tilt", {5})
        \cup Put("Gobo", {6}) \cup Put("GoboRotation", {7})
        \cup Put("MirrorRotation", {8}))
\* Mutant: without the prism its channel is left as it was.
LilChonker_Stale == Fixture("LilChonker", 15, "Short", "Dimmer",
    Put("Pan", {0, 1}) \cup Put("Tilt", {2, 3}) \cup Strobed("Dimmer", {5})
        \cup Put("Color", {7}) \cup Put("Focus", {8}) \cup Put("RotatingGobo", {9})
        \cup Put("GoboRotation", {10}) \cup Put("Gobo", {11})
        \cup When("Prism", Put("PrismRotation", {12})) \cup Fixed({4, 6, 13, 14}))
LilChonker == Fixture("LilChonker", 15, "Short", "Dimmer",
    Put("Pan", {0, 1}) \cup Put("Tilt", {2, 3}) \cup Strobed("Dimmer", {5})
        \cup Put("Color", {7}) \cup Put("Focus", {8}) \cup Put("RotatingGobo", {9})
        \cup Put("GoboRotation", {10}) \cup Put("Gobo", {11})
        \cup IfElse("Prism", Put("PrismRotation", {12}), Zero({12}))
        \cup Fixed({4, 6, 13, 14}))
Mac700 == Fixture("Mac700", 31, "Long", "Val",
    Strobed("Val", {1, 2}) \cup Put("Color", 3 .. 8) \cup Put("ColorWheel", {9})
        \cup Put("RotatingGobo", {11}) \cup Put("GoboRotation", {12})
        \cup Put("StaticGobo", {14})
        \cup IfElse("Prism", Put("PrismRotation", {18}), Zero({18}))
        \cup Put("Iris", {19}) \cup Put("Focus", {21, 22}) \cup Put("Zoom", {23, 24})
        \cup Put("Pan", {25, 26}) \cup Put("Tilt", {27, 28})
        \cup Fixed({0, 10, 13, 15, 16, 17, 20, 29, 30}))
\* The colors of its beam are one value of channel 0; with none of them the
\* dimmer is written a second time, with 0.
Beam ==
    LET colors == {"Red", "Green", "Blue"} IN
    (UNION {When(c, Strobed("Dimmer", {3})) : c \in colors})
        \cup {[w EXCEPT !.off = colors] : w \in Zero({3})}
TriPhase == Fixture("TriPhase", 4, "Short", "Dimmer",
    Put("Color", {0}) \cup Put("Rotation", {1}) \cup Zero({2}) \cup Beam)
QuadPhase == Fixture("QuadPhase", 4, "Short", "Shutter",
    Put("Color", {0}) \cup Put("Rotation", {1}) \cup Fixed({2})
        \cup Strobed("Shutter", {3}))

(***************************************************************************)
(* Fixtures that treat the strobe in a way of their own                    *)
(***************************************************************************)
\* A flash opens the shutter; nothing closes it for the strobe.
Hypnotic == Fixture("Hypnotic", 2, "Short", "Shutter",
    Put("Rotation", {1})
        \cup IfElse("Shutter", Put("Shutter", {0}),
                IfElse("flash", Put("strobe", {0}), Zero({0}))))
\* The LEDs and the laser each follow the strobe if their switch says so.
FusionRoll == Fixture("FusionRoll", 11, "Short", "none",
    Put("DrumSwivel", {0}) \cup Put("DrumRotation", {1}) \cup Put("Color", {2})
        \cup Put("LaserRotation", {5})
        \cup IfElse("LEDStrobeOn", Strobed("Dimmer", {4}), Put("Dimmer", {4}))
        \cup IfElse("LaserStrobeOn", Strobed("LaserOn", {6}), Put("LaserOn", {6})))
\* Strobes on its own, at the master's rate (StrobeFollower).
FreedomFries == Fixture("FreedomFries", 8, "Short", "none",
    Put("Dimmer", {0}) \cup Put("Color", 1 .. 3) \cup Fixed({4})
        \cup IfElse("enabled",
                IfElse("strobing", Put("strobe", {5}), Zero({5})), Zero({5}))
        \cup Put("Program", {6}) \cup Put("Speed", {7}))
\* The strobe overrides a closed shutter, but an open one writes channel 0
\* only if the fixture is to listen to the music.
Comet == Fixture("Comet", 5, "Long", "Shutter",
    IfElse("Shutter",
            When("ShutterSoundActive", Put("ShutterSoundActive", {0})),
            Strobed("Shutter", {0}))
        \cup Put("SelectMacro", {1}) \cup Put("Mspeed", {2}) \cup Put("Trigger", {3})
        \cup Put("Reset", {4}))

\* Arrays of cells that flash one after the other, and are black while
\* strobing is not enabled.
Cells(n) == IfElse("enabled", Put("cells", 0 .. n - 1), Zero(0 .. n - 1))
FreqStrobe == Fixture("FreqStrobe", 16, "Short", "none", Cells(16))
FlashBang == Fixture("FlashBang", 5, "Short", "none", Cells(5))
FlashBangPaired == Fixture("FlashBang", 10, "Short", "none", Cells(10))

Moonraker == Fixture("Moonraker", 27, "Short", "Master",
    Put("Pan", {0}) \cup Put("Tilt", {1})
        \cup IfElse("spinning",
                Fixed({2}) \cup Put("Rotation", {3}), Put("Roll", {2}) \cup Zero({3}))
        \cup Strobed("Master", {4}) \cup Fixed({5, 24, 25, 26})
        \cup Put("Beam", 6 .. 23))

(***************************************************************************)
(* Fixtures that are patched as several groups over the same addresses     *)
(***************************************************************************)
\* A shutter that the strobe overrides decides whether the color is written.
SwarmolonDerby == Fixture("SwarmolonDerby", 9, "Short", "Shutter",
    Fixed({0, 2, 3}) \cup Put("R", {7})
        \cup IfElse("strobe",
                IfElse("flash", Put("Color", {1}), Zero({1})),
                IfElse("Shutter", Put("Shutter", {1}), Zero({1}))))
\* Mutant: a neighbour's channel.
SwarmolonStrobe_Neighbour == Fixture("SwarmolonStrobe", 9, "Short", "none",
    IfElse("enabled",
        IfElse("strobing", Put("Pattern", {5}), Zero({5})), Zero({5})))
SwarmolonStrobe == Fixture("SwarmolonStrobe", 9, "Short", "none",
    IfElse("enabled",
        IfElse("strobing", Put("Pattern", {4}), Zero({4})), Zero({4})))
SwarmolonLasers == Fixture("SwarmolonLasers", 9, "Short", "Shutter",
    Zero({6}) \cup Put("R", {8})
        \cup IfElse("strobe",
                IfElse("flash", Put("Color", {5}), Zero({5})),
                IfElse("Shutter", Put("Shutter", {5}), Zero({5}))))

\* The heads of one fixture are patched one by one, the first with all that
\* they share.
SwizzleStick(head) == Fixture("SwizzleStick", 27, "Short", "none",
    (IF head # 1 THEN {}
     ELSE Put("Pan", {0, 1}) \cup Put("TiltMacro", {18})
            \cup IfElse("PanSpinActive", Put("PanSpin", {2}), Zero({2}))
            \cup Put("TiltMacroSpeed", {19}) \cup Fixed(20 .. 26))
        \cup Put("Tilt", {1 + 2 * head, 2 + 2 * head})
        \cup IfElse("TiltSpinActive",
                Put("TiltSpin", {12 + head}), Zero({12 + head})))

(***************************************************************************)
(* Types with several models, which the render mode selects                *)
(***************************************************************************)
ColorModel == [Rgb |-> 3, DimmerRgb |-> 4, Rgbw |-> 4, DimmerRgbw |-> 5,
               SevenChannelRgbw |-> 7, Rgbwa |-> 5, Rgbwau |-> 6, Hsv |-> 3]
Color(kind) == Fixture("Color", ColorModel[kind], "Short", "Val",
    Colored(0 .. ColorModel[kind] - 1))

LekoModel == [
    Dimmer |-> [count |-> 1, writes |-> Strobed("Level", {0})],
    GoboSpinnaz |-> [count |-> 4,
        writes |-> Put("Gobo1", {0, 1}) \cup Put("Gobo2", {2, 3})],
    DhaVarispeed |-> [count |-> 4,
        writes |-> Put("Gobo1", {0, 1}) \cup Put("Gobo2", {2, 3})],
    DcRotator |-> [count |-> 1, writes |-> Put("Gobo1", {0})],
    ApolloRotoQDmx |-> [count |-> 2, writes |-> Put("Gobo1", {0}) \cup Zero({1})],
    ApolloSmartMove |-> [count |-> 3,
        writes |-> Put("Gobo1", {0}) \cup Zero({1, 2})]]
Leko(kind) == Fixture("Leko", LekoModel[kind].count, "Long", "Level",
    LekoModel[kind].writes)

\* What can be patched (PATCHERS), in every mode.
AllProfiles ==
    {EmptyChannel, Atlas, Radiance, Aquarius, Dimmer, Relay, UvLedBrick, Starlight,
     CosmicBurst, Astroraggi, RotosphereQ3, IWashLed, Ufo, Eyeball, Faderboard,
     Venus, Astera, RugDoctor, Wled, Lumitone, SolarSystem, Lumasphere,
     Colordynamic, H2O, Abyss2, Chizlet, Wizlet, WizardExtreme, RushWizard,
     Astroscan, LilChonker, Mac700, TriPhase, QuadPhase, Hypnotic, FusionRoll,
     FreedomFries, Comet, FreqStrobe, FlashBang, FlashBangPaired, Moonraker,
     SwarmolonDerby, SwarmolonStrobe, SwarmolonLasers}
        \cup {SwizzleStick(head) : head \in 1 .. 5}
        \cup {Color(kind) : kind \in DOMAIN ColorModel}
        \cup {Leko(kind) : kind \in DOMAIN LekoModel}

\* Parts of one fixture, which are patched over each other.
Overlaid(P, Q) ==
    \/ P # Q /\ {P, Q} \subseteq {SwarmolonDerby, SwarmolonStrobe, SwarmolonLasers}
    \/ \E h \in 1 .. 5 : \E k \in 1 .. 5 \ {h} :
           P = SwizzleStick(h) /\ Q = SwizzleStick(k)
=============================================================================
