------------------------------- MODULE MCRig -------------------------------
(***************************************************************************)
(* Shows for Rig: every profile in every mode, alone in a group, and the   *)
(* fixtures that are patched as several groups over each other.            *)
(***************************************************************************)
EXTENDS Rig

Fix(profile, addr) == [profile |-> profile, addr |-> addr]
Group(key, fixtures, switched, master) ==
    [key |-> key, options |-> "none", fixtures |-> fixtures, switches |-> switched,
     choices |-> {}, steps |-> {}, master |-> master]

\* What a profile looks at, the strobe's part in it left out.
SwitchesOf(profile) ==
    UNION {w.on \cup w.off : w \in profile.writes}
        \ {"enabled", "strobing", "strobe", "flash", "spinning"}
Master == {"StrobeOn", "FlashNow", "Intensity"}
Alone(profile) == {<<Group("a", <<Fix(profile, 0)>>, SwitchesOf(profile), Master)>>}

Profiles1 ==
    {EmptyChannel, Atlas, Radiance, Aquarius, Dimmer, Relay, UvLedBrick, Starlight,
     CosmicBurst, Astroraggi, RotosphereQ3, IWashLed, Ufo, Eyeball, Faderboard,
     Venus, Astera, RugDoctor, Wled, Lumitone, SolarSystem, Lumasphere,
     Colordynamic, H2O, Abyss2, Chizlet, Wizlet, WizardExtreme, RushWizard,
     Astroscan, LilChonker, Mac700, TriPhase, QuadPhase, Hypnotic, FusionRoll,
     FreedomFries, Comet}

\* Repatching changes the model of the fixtures of a group.
Models(fixture(_), kinds) ==
    {<<Group("a", <<Fix(fixture(k), 0)>>, SwitchesOf(fixture(k)), Master)>> : k \in kinds}

Swarmolon ==
    {<<Group("derby", <<Fix(SwarmolonDerby, 0)>>, {"Shutter"}, {"StrobeOn"}),
       Group("strobe", <<Fix(SwarmolonStrobe, 0)>>, {}, {}),
       Group("lasers", <<Fix(SwarmolonLasers, 0)>>, {"Shutter"}, {"FlashNow"})>>}
Sticks ==
    {<<Group("heads", [i \in 1 .. 5 |-> Fix(SwizzleStick(i), 0)],
             SwitchesOf(SwizzleStick(1)) \cup SwitchesOf(SwizzleStick(2)), {"StrobeOn"}),
       Group("colors", [i \in 1 .. 5 |-> Fix(Color("Rgbw"), 27 + 4 * (i - 1))], {}, {})>>}

\* A Moonraker that becomes another type of fixture and comes back.
Moonrakers ==
    {<<Group("a", <<Fix(p, 0)>>, {"Rotate"}, {"StrobeOn"})>> : p \in {Moonraker, Dimmer}}
Stepping ==
    {<<[Group("a", <<Fix(Comet, 0)>>, {"AutoStep"}, {}) EXCEPT !.steps = Steps]>>}
Chasing(profile, options, choices) ==
    {<<[Group("a", <<Fix(profile, 0)>>, {"Reverse"}, {"StrobeOn", "FlashNow"})
        EXCEPT !.choices = choices, !.options = options]>>}

MCShows ==
    {Alone(p) : p \in Profiles1}
        \cup {Models(Color, DOMAIN ColorModel), Models(Leko, DOMAIN LekoModel)}
        \cup {Swarmolon, Sticks, Moonrakers, Stepping}
        \cup {Chasing(FreqStrobe, "none", {<<1, 1>>, <<1, 3>>}),
              Chasing(FreqStrobe, "none", {<<2, 2>>, <<3, 3>>, <<5, 2>>}),
              Chasing(FlashBang, "none", {<<1, 1>>, <<4, 1>>, <<1, 2>>}),
              Chasing(FlashBangPaired, "paired", {<<2, 2>>, <<6, 1>>, <<1, 2>>})}
MoonrakerShows == {Moonrakers}
=============================================================================
